---- MODULE Spec2Model ----
(***************************************************************************)
(* A model of k8s-diff-tool (kdiff): the kind filter, the sensitive-data   *)
(* masker, the diff engine and the cluster reconciliation flow.            *)
(*                                                                         *)
(* Strings are sequences of one-character strings, so that len(), slicing, *)
(* strings.ToLower and strings.Repeat act on them as they do on Go strings *)
(* of ASCII bytes.                                                         *)
(***************************************************************************)
EXTENDS Integers, Sequences, FiniteSets, TLC

VARIABLES
  maskCalls,    \* generateMask: the calls made so far, [original, result]
  filterCall,   \* filterResources: <<>> or the one call made, [docs, includeKinds, excludeKinds, filtered]
  maskDocsCall, \* maskSensitiveData: <<>> or the one call made, [docs, masked]
  diffCall,     \* Diff: <<>> or the one call made, [fileA, fileB, opts, text, err]
  listCall,     \* ListYAMLFiles: <<>> or the one call made, [dir, files, err]
  \* cluster mode (runClusterDirDiff and diffLocalWithCluster)
  args,         \* the run's inputs: [dir, opts, clientNamespace]
  pc,           \* where the run is: "idle", "start", "loadFile", "get", "apply", "diff", "done"
  files,        \* runClusterDirDiff: the sorted file names
  fileIdx,      \* runClusterDirDiff: position in files
  resources,    \* diffLocalWithCluster: the parsed resources of the current file
  resIdx,       \* diffLocalWithCluster: position in resources
  liveRes,      \* diffLocalWithCluster: the live fetch's result, [obj, err]
  dryRunRes,    \* diffLocalWithCluster: the dry-run apply's result
  calls,        \* the accessor calls made so far, [op, file, res, namespace]
  printed,      \* the diff units printed so far, [file, res]
  lastDiff,     \* the last Diff call of the run and what was printed for it
  retErr,       \* the error the run returned ("" for nil)
  persisted     \* the cluster: the objects it has stored since the run began

callVars == <<maskCalls, filterCall, maskDocsCall, diffCall, listCall>>

clusterVars == <<args, pc, files, fileIdx, resources, resIdx, liveRes, dryRunRes,
                 calls, printed, lastDiff, retErr, persisted>>

vars == <<callVars, clusterVars>>

(***************************************************************************)
(* Bounds of the model.                                                    *)
(***************************************************************************)
\* longest secret value handed to generateMask
MaxLen == 10
\* number of generateMask calls followed in one behaviour
MaxCalls == 2
\* longest document sequence handed to filterResources
MaxDocs == 2
\* longest document sequence handed to maskSensitiveData
MaxMaskDocs == 2
\* most documents in the two input streams of Diff together
MaxDiffDocs == 3

(***************************************************************************)
(* Strings.                                                                *)
(***************************************************************************)
Upper == <<"A","B","C","D","E","F","G","H","I","J","K","L","M",
           "N","O","P","Q","R","S","T","U","V","W","X","Y","Z">>
Lower == <<"a","b","c","d","e","f","g","h","i","j","k","l","m",
           "n","o","p","q","r","s","t","u","v","w","x","y","z">>

\* unicode.ToLower on one ASCII character
ToLowerChar(c) ==
  IF \E i \in 1..Len(Upper) : Upper[i] = c
  THEN Lower[CHOOSE i \in 1..Len(Upper) : Upper[i] = c]
  ELSE c

\* a variant that keeps the letter case
ToLower_KeepCase(s) == s

\* strings.ToLower
ToLower(s) == [i \in 1..Len(s) |-> ToLowerChar(s[i])]

\* strings.Repeat(c, n)
Repeat(c, n) == [i \in 1..n |-> c]

\* s[:n]
Take(s, n) == SubSeq(s, 1, n)

(***************************************************************************)
(* crypto/sha256 and encoding/hex.  Sum256 is the SHA-256 digest (32       *)
(* bytes) of the strings the model hashes: every prefix of the three       *)
(* secrets of SecretBases and the %v renderings of the non-string leaves.  *)
(* The values are the real digests.                                        *)
(***************************************************************************)
Sha256Table ==
  {
    <<<<>>,
      <<227,176,196,66,152,252,28,20,154,251,244,200,153,111,185,36,39,174,65,228,100,155,147,76,164,149,153,27,120,82,184,85>>>>,
    <<<<"a">>,
      <<202,151,129,18,202,27,189,202,250,194,49,179,154,35,220,77,167,134,239,248,20,124,78,114,185,128,119,133,175,238,72,187>>>>,
    <<<<"a","b">>,
      <<251,142,32,252,46,76,63,36,140,96,195,155,214,82,243,193,52,114,152,187,151,123,139,77,89,3,184,80,85,98,6,3>>>>,
    <<<<"a","b","c">>,
      <<186,120,22,191,143,1,207,234,65,65,64,222,93,174,34,35,176,3,97,163,150,23,122,156,180,16,255,97,242,0,21,173>>>>,
    <<<<"a","b","c","1">>,
      <<219,252,253,13,135,34,15,98,147,57,189,58,220,244,82,208,131,253,227,36,102,37,251,58,147,227,20,248,51,226,13,55>>>>,
    <<<<"a","b","c","1","2">>,
      <<141,81,254,179,78,62,105,246,250,109,255,197,119,226,198,4,144,207,154,127,205,131,95,159,106,241,80,91,113,215,71,115>>>>,
    <<<<"a","b","c","1","2","3">>,
      <<108,161,61,82,202,112,200,131,224,240,187,16,30,66,90,137,232,98,77,229,29,178,210,57,37,147,175,106,132,17,128,144>>>>,
    <<<<"a","b","c","1","2","3","=">>,
      <<63,175,20,140,65,54,193,33,84,27,23,96,3,138,43,154,173,247,20,253,61,92,218,207,96,41,124,127,118,219,31,208>>>>,
    <<<<"a","b","c","1","2","3","=","=">>,
      <<162,81,194,209,79,227,51,231,121,219,237,47,182,30,102,93,190,26,209,52,95,218,65,4,95,40,120,36,214,103,163,199>>>>,
    <<<<"a","b","c","1","2","3","=","=","k">>,
      <<70,2,158,29,23,249,212,98,241,200,33,123,39,155,81,50,109,103,141,49,24,72,19,24,255,156,184,216,92,46,155,204>>>>,
    <<<<"a","b","c","1","2","3","=","=","k","8">>,
      <<142,37,1,77,98,186,138,10,239,7,91,67,255,145,10,204,21,199,72,234,126,143,105,31,246,26,246,60,246,160,12,240>>>>,
    <<<<"a","b","c","1","2","3","=","=","k","8","s">>,
      <<115,235,51,114,246,217,208,111,218,128,66,250,59,240,24,76,161,211,223,250,19,168,226,11,220,122,211,133,110,188,61,137>>>>,
    <<<<"a","b","c","1","2","3","=","=","k","8","s","x">>,
      <<50,104,42,125,112,214,143,21,224,190,133,131,221,154,177,245,226,19,82,167,84,120,29,232,172,19,243,169,99,133,34,135>>>>,
    <<<<"b">>,
      <<62,35,232,22,0,57,89,74,51,137,79,101,100,225,177,52,139,189,122,0,136,212,44,74,203,115,238,174,213,156,0,157>>>>,
    <<<<"b","z">>,
      <<217,145,148,140,120,136,36,148,201,136,139,159,80,149,36,96,169,73,144,47,105,14,213,204,164,145,78,183,41,151,103,36>>>>,
    <<<<"b","z","5">>,
      <<107,62,123,40,67,229,212,77,39,44,42,227,11,32,235,85,254,110,227,21,242,113,157,228,101,15,239,78,249,88,160,90>>>>,
    <<<<"b","z","5","v">>,
      <<190,64,14,155,55,222,214,130,16,111,74,54,34,136,95,234,155,193,80,216,68,172,81,1,234,223,187,13,28,50,189,95>>>>,
    <<<<"b","z","5","v","m">>,
      <<34,78,216,31,9,78,163,142,88,186,246,254,215,254,180,181,230,178,255,3,234,51,239,7,220,175,80,168,139,76,76,212>>>>,
    <<<<"b","z","5","v","m","c">>,
      <<165,92,124,218,105,46,74,23,77,254,185,83,141,15,234,201,117,57,42,171,159,112,251,229,55,120,189,126,36,66,243,93>>>>,
    <<<<"b","z","5","v","m","c","g">>,
      <<180,126,247,242,41,198,108,74,228,12,140,160,215,83,13,88,84,221,154,207,93,70,42,133,239,80,4,226,24,75,154,252>>>>,
    <<<<"b","z","5","v","m","c","g","i">>,
      <<113,41,190,139,189,19,6,54,92,98,87,183,1,109,40,46,199,60,17,217,214,13,111,84,60,202,95,11,50,14,36,18>>>>,
    <<<<"b","z","5","v","m","c","g","i","p">>,
      <<37,182,236,116,212,125,152,249,6,232,96,239,19,76,17,180,105,133,90,211,37,144,174,128,108,180,216,87,75,176,255,116>>>>,
    <<<<"b","z","5","v","m","c","g","i","p","8">>,
      <<232,109,241,72,32,242,220,250,148,164,47,116,184,103,180,64,94,48,1,172,205,96,143,234,153,32,49,95,223,103,8,179>>>>,
    <<<<"b","z","5","v","m","c","g","i","p","8","q">>,
      <<187,202,198,230,160,249,92,184,59,236,108,237,156,43,47,199,6,191,210,21,207,213,241,152,101,186,68,76,119,198,157,172>>>>,
    <<<<"b","z","5","v","m","c","g","i","p","8","q","q">>,
      <<30,234,58,211,35,64,164,96,95,95,151,99,74,105,113,123,104,17,192,191,228,152,136,61,127,158,168,108,109,175,19,167>>>>,
    <<<<"e">>,
      <<63,121,187,123,67,91,5,50,22,81,218,239,211,116,205,198,129,220,6,250,166,94,55,78,56,51,123,136,202,4,109,234>>>>,
    <<<<"e","9">>,
      <<11,34,125,210,56,35,74,11,26,41,96,93,40,87,234,6,121,105,246,189,174,60,38,135,32,220,87,248,117,164,142,84>>>>,
    <<<<"e","9","w">>,
      <<209,130,193,55,195,78,74,203,121,206,165,236,254,200,36,195,125,145,240,9,181,14,34,154,7,56,213,155,135,230,207,134>>>>,
    <<<<"e","9","w","p">>,
      <<49,224,212,61,22,211,235,243,156,56,254,10,196,230,239,138,180,237,162,66,82,160,101,59,49,123,229,142,51,216,249,101>>>>,
    <<<<"e","9","w","p","3">>,
      <<135,171,19,105,80,18,226,56,235,152,182,182,119,91,212,107,113,192,160,11,98,154,210,55,252,90,98,139,19,55,119,252>>>>,
    <<<<"e","9","w","p","3","m">>,
      <<254,137,173,219,104,82,247,225,217,240,122,174,64,139,254,144,148,108,203,197,212,47,30,194,168,206,48,189,99,81,255,156>>>>,
    <<<<"e","9","w","p","3","m","b">>,
      <<2,114,208,248,35,76,41,251,14,224,3,54,63,184,232,48,199,18,229,242,124,5,104,149,82,144,183,170,126,2,84,245>>>>,
    <<<<"e","9","w","p","3","m","b","e">>,
      <<206,127,46,92,31,158,96,187,48,199,64,57,150,126,199,173,71,184,182,123,91,206,65,59,3,151,55,136,156,41,234,173>>>>,
    <<<<"e","9","w","p","3","m","b","e","f">>,
      <<107,176,17,226,193,188,11,193,198,172,208,135,50,97,64,107,122,251,62,168,167,93,180,166,23,91,173,140,76,39,128,103>>>>,
    <<<<"e","9","w","p","3","m","b","e","f","n">>,
      <<232,109,241,72,167,122,169,117,58,240,213,79,23,76,128,81,25,42,69,38,42,101,11,94,176,75,4,195,26,100,1,239>>>>,
    <<<<"e","9","w","p","3","m","b","e","f","n","q">>,
      <<128,247,193,64,3,134,31,122,131,226,40,99,107,7,31,29,237,139,248,227,88,63,99,208,202,24,184,158,80,122,232,178>>>>,
    <<<<"e","9","w","p","3","m","b","e","f","n","q","q">>,
      <<87,126,250,69,220,132,162,187,198,103,254,80,107,188,119,107,138,159,211,142,206,17,160,136,188,144,121,182,140,22,234,49>>>>,
    <<<<"<","n","i","l",">">>,
      <<169,220,22,167,163,135,93,23,76,26,244,249,35,242,97,202,252,18,67,87,242,50,36,147,165,158,224,209,79,205,16,219>>>>,
    <<<<"7">>,
      <<121,2,105,155,228,44,138,142,70,251,187,69,1,114,101,23,232,107,34,197,106,24,159,118,37,166,218,73,8,27,36,81>>>>,
    <<<<"4","2">>,
      <<115,71,92,180,10,86,142,141,168,160,69,206,209,16,19,126,21,159,137,10,196,218,136,59,107,23,220,101,27,58,128,73>>>>,
    <<<<"t","r","u","e">>,
      <<181,190,164,27,108,98,63,124,9,241,191,36,220,174,88,235,171,60,12,221,144,173,150,107,196,58,69,180,72,103,225,43>>>>,
    <<<<"x">>,
      <<45,113,22,66,183,38,176,68,1,98,124,169,251,172,50,245,200,83,15,177,144,60,196,219,2,37,135,23,146,26,72,129>>>>,
    <<<<"m","a","p","[","a",":","b","]">>,
      <<246,91,148,116,103,10,136,40,249,59,173,36,112,153,98,240,236,139,102,185,167,181,172,173,99,36,87,132,68,86,214,156>>>>
  }

Sha256Of == [s \in {p[1] : p \in Sha256Table} |-> (CHOOSE p \in Sha256Table : p[1] = s)[2]]

Sum256(s) == Sha256Of[s]

HexDigits == <<"0","1","2","3","4","5","6","7","8","9","a","b","c","d","e","f">>

\* hex.EncodeToString: two lower-case hexadecimal characters per byte
EncodeToString(bytes) ==
  [i \in 1..(2 * Len(bytes)) |->
     IF i % 2 = 1
     THEN HexDigits[(bytes[(i + 1) \div 2] \div 16) + 1]
     ELSE HexDigits[(bytes[i \div 2] % 16) + 1]]

(***************************************************************************)
(* generateMask                                                            *)
(***************************************************************************)
\* the number of digest characters a mask ends with
MaskKeep == 8

\* the character that hides the prefix of a long value
MaskChar == "*"

\* the mask of a short value keeps the whole 8 digest characters
generateMask_NoTruncate(original) ==
  LET length  == Len(original)
      hexHash == EncodeToString(Sum256(original))
  IN  IF length = 0 THEN <<>>
      ELSE IF length <= MaskKeep THEN Take(hexHash, MaskKeep)
      ELSE Repeat(MaskChar, length - MaskKeep) \o Take(hexHash, MaskKeep)

\* the prefix of a long value is copied from the value instead of hidden
generateMask_LeakPrefix(original) ==
  LET length  == Len(original)
      hexHash == EncodeToString(Sum256(original))
  IN  IF length = 0 THEN <<>>
      ELSE IF length <= MaskKeep THEN Take(hexHash, length)
      ELSE Take(original, length - MaskKeep) \o Take(hexHash, MaskKeep)

generateMask(original) ==
  LET length  == Len(original)
      hexHash == EncodeToString(Sum256(original))
  IN  IF length = 0 THEN <<>>
      ELSE IF length <= MaskKeep THEN Take(hexHash, length)
      ELSE LET prefixLen == length - MaskKeep
           IN  Repeat(MaskChar, prefixLen) \o Take(hexHash, MaskKeep)

\* three secrets; the values that are masked are their prefixes
SecretBases ==
  { <<"a","b","c","1","2","3","=","=","k","8","s","x">>,
    <<"b","z","5","v","m","c","g","i","p","8","q","q">>,
    <<"e","9","w","p","3","m","b","e","f","n","q","q">>  }

SecretValues == { Take(b, n) : b \in SecretBases, n \in 0..MaxLen }

(***************************************************************************)
(* Decoded documents.  A document, and every node under it, is one of the  *)
(* values yaml.v3 decodes into interface{}: a string, an int, nil, a       *)
(* map[string]interface{} (every key a string) or a                        *)
(* map[interface{}]interface{} (some key not a string).  The fields of a   *)
(* map are a function from its keys.                                       *)
(***************************************************************************)
StrV(s) == [t |-> "str", s |-> s]
IntV(n) == [t |-> "int", n |-> n]
NilV    == [t |-> "nil"]
SMap(m) == [t |-> "smap", m |-> m]
GMap(m) == [t |-> "gmap", m |-> m]

\* the function with the given set of <<key, value>> pairs
Fields(pairs) == [key \in {p[1] : p \in pairs} |-> (CHOOSE p \in pairs : p[1] = key)[2]]

\* kind strings of the documents and of the -i / -e lists
sSecret    == <<"S","e","c","r","e","t">>
sSecretLc  == <<"s","e","c","r","e","t">>
sConfigMap == <<"C","o","n","f","i","g","M","a","p">>
sService   == <<"S","e","r","v","i","c","e">>
sServiceUc == <<"S","E","R","V","I","C","E">>
sPod       == <<"P","o","d">>
sConfigMapUc == <<"C","O","N","F","I","G","M","A","P">>

(***************************************************************************)
(* YAML input.  A document of a stream is a node: a scalar (its text, and  *)
(* whether it is quoted) or a mapping from keys to nodes.  Keys are        *)
(* strings; the keys of IntKeys are plain integers in the text, so yaml    *)
(* resolves them to !!int instead of !!str.                                *)
(***************************************************************************)
ScalarNode(text, quoted) == [k |-> "scalar", text |-> text, quoted |-> quoted]
MapNode(m)               == [k |-> "map", m |-> m]

IntKeys == {"1"}

Digits == <<"0","1","2","3","4","5","6","7","8","9">>

IsDigits(text) ==
  /\ Len(text) > 0
  /\ \A i \in 1..Len(text) : \E d \in 1..Len(Digits) : text[i] = Digits[d]

DigitVal(c) == (CHOOSE d \in 1..Len(Digits) : Digits[d] = c) - 1

RECURSIVE ParseInt(_)
ParseInt(text) ==
  IF Len(text) = 0 THEN 0
  ELSE 10 * ParseInt(Take(text, Len(text) - 1)) + DigitVal(text[Len(text)])

sNull == <<"n","u","l","l">>

\* yaml's implicit tag of a scalar
ResolveTag(text, quoted) ==
  IF quoted THEN "str"
  ELSE IF text = <<>> \/ text = sNull \/ text = <<"~">> THEN "null"
  ELSE IF IsDigits(text) THEN "int"
  ELSE "str"

\* yaml.v3 isStringMap: every key of the mapping is a string
isStringMap(n) == \A key \in DOMAIN n.m : key \notin IntKeys

\* yaml.v3 unmarshal of one document node into interface{}
RECURSIVE DecodeNode(_)
DecodeNode(n) ==
  IF n.k = "scalar" THEN
    LET tag == ResolveTag(n.text, n.quoted)
    IN  IF tag = "null" THEN NilV
        ELSE IF tag = "int" THEN IntV(ParseInt(n.text))
        ELSE StrV(n.text)
  ELSE
    LET m == [key \in DOMAIN n.m |-> DecodeNode(n.m[key])]
    IN  IF isStringMap(n) THEN SMap(m) ELSE GMap(m)

\* all sequences over S of length at most n
SeqsUpTo(S, n) == UNION { [1..k -> S] : k \in 0..n }

(***************************************************************************)
(* filterResources                                                         *)
(***************************************************************************)
\* the includeSet / excludeSet built from a list of kinds
KindSet(kinds) == { ToLower(kinds[i]) : i \in 1..Len(kinds) }

\* the kind extraction at the head of the loop: foundKind and kind
ExtractKind(doc) ==
  IF doc.t \in {"smap", "gmap"} /\ "kind" \in DOMAIN doc.m /\ doc.m["kind"].t = "str"
  THEN [foundKind |-> TRUE,  kind |-> ToLower(doc.m["kind"].s)]
  ELSE [foundKind |-> FALSE, kind |-> <<>>]

\* a kind of the include set is kept without looking at the exclude set
KeepDoc_IncludeWins(doc, includeSet, excludeSet) ==
  LET k == ExtractKind(doc)
  IN  IF ~k.foundKind THEN includeSet = {}
      ELSE IF includeSet # {} THEN k.kind \in includeSet
      ELSE k.kind \notin excludeSet

\* a document of unknown kind is kept whatever the include set is
KeepDoc_UnknownKept(doc, includeSet, excludeSet) ==
  LET k == ExtractKind(doc)
  IN  IF ~k.foundKind THEN TRUE
      ELSE IF includeSet # {} /\ k.kind \notin includeSet THEN FALSE
      ELSE IF excludeSet # {} /\ k.kind \in excludeSet THEN FALSE
      ELSE TRUE

\* the body of the loop: TRUE when the document is appended to filtered
KeepDoc(doc, includeSet, excludeSet) ==
  LET k == ExtractKind(doc)
  IN  IF ~k.foundKind THEN
        IF Cardinality(includeSet) > 0 THEN FALSE ELSE TRUE
      ELSE IF Cardinality(includeSet) > 0 /\ k.kind \notin includeSet THEN FALSE
      ELSE IF Cardinality(excludeSet) > 0 /\ k.kind \in excludeSet THEN FALSE
      ELSE TRUE

\* a variant that prepends each document it keeps
filterResources_Prepending(docs, includeKinds, excludeKinds) ==
  IF Len(includeKinds) = 0 /\ Len(excludeKinds) = 0 THEN docs
  ELSE LET includeSet == KindSet(includeKinds)
           excludeSet == KindSet(excludeKinds)
           kept == SelectSeq(docs, LAMBDA doc : KeepDoc(doc, includeSet, excludeSet))
       IN  [i \in 1..Len(kept) |-> kept[Len(kept) + 1 - i]]

filterResources(docs, includeKinds, excludeKinds) ==
  IF Len(includeKinds) = 0 /\ Len(excludeKinds) = 0 THEN docs
  ELSE LET includeSet == KindSet(includeKinds)
           excludeSet == KindSet(excludeKinds)
       IN  SelectSeq(docs, LAMBDA doc : KeepDoc(doc, includeSet, excludeSet))

(***************************************************************************)
(* fmt.Sprintf("%v", val) of a decoded value.                              *)
(***************************************************************************)
\* the characters of the keys of the model's documents
KeyText ==
  [ kind          |-> <<"k","i","n","d">>,
    data          |-> <<"d","a","t","a">>,
    stringData    |-> <<"s","t","r","i","n","g","D","a","t","a">>,
    binaryData    |-> <<"b","i","n","a","r","y","D","a","t","a">>,
    metadata      |-> <<"m","e","t","a","d","a","t","a">>,
    name          |-> <<"n","a","m","e">>,
    password      |-> <<"p","a","s","s","w","o","r","d">>,
    port          |-> <<"p","o","r","t">>,
    token         |-> <<"t","o","k","e","n">>,
    blob          |-> <<"b","l","o","b">>,
    nested        |-> <<"n","e","s","t","e","d">>,
    empty         |-> <<"e","m","p","t","y">>,
    a             |-> <<"a">>,
    apiVersion    |-> <<"a","p","i","V","e","r","s","i","o","n">>,
    namespace     |-> <<"n","a","m","e","s","p","a","c","e">>,
    managedFields |-> <<"m","a","n","a","g","e","d","F","i","e","l","d","s">>,
    manager       |-> <<"m","a","n","a","g","e","r">> ]
  @@ ("1" :> <<"1">>)

\* the keys in the order fmt and yaml sort them
KeyOrder ==
  << "1", "a", "apiVersion", "binaryData", "blob", "data", "empty", "kind",
     "managedFields", "manager", "metadata", "name", "namespace", "nested",
     "password", "port", "stringData", "token" >>

\* the keys of a map, sorted
SortedKeys(m) == SelectSeq(KeyOrder, LAMBDA key : key \in DOMAIN m)

\* strconv.Itoa of a non-negative int
RECURSIVE Itoa(_)
Itoa(n) ==
  IF n < 10 THEN <<Digits[n + 1]>>
  ELSE Itoa(n \div 10) \o <<Digits[(n % 10) + 1]>>

sNil == <<"<","n","i","l",">">>

RECURSIVE Sprintf(_)
RECURSIVE SprintfEntries(_, _, _)
\* "k1:v1 k2:v2 ..." for the keys from position i on
SprintfEntries(m, keys, i) ==
  IF i > Len(keys) THEN <<>>
  ELSE (IF i > 1 THEN <<" ">> ELSE <<>>)
       \o KeyText[keys[i]] \o <<":">> \o Sprintf(m[keys[i]])
       \o SprintfEntries(m, keys, i + 1)

Sprintf(val) ==
  IF val.t = "str" THEN val.s
  ELSE IF val.t = "int" THEN Itoa(val.n)
  ELSE IF val.t = "nil" THEN sNil
  ELSE <<"m","a","p","[">> \o SprintfEntries(val.m, SortedKeys(val.m), 1) \o <<"]">>

(***************************************************************************)
(* DefaultMaskingRules, maskMap, maskSensitiveData                         *)
(***************************************************************************)
sConfigMapLc == <<"c","o","n","f","i","g","m","a","p">>

\* kind (lower case) -> RootKeys
DefaultMaskingRules ==
  (sSecretLc    :> <<"data", "stringData">>) @@
  (sConfigMapLc :> <<"data", "binaryData">>)

\* the values of the map at parent[key], each replaced by its mask
\* a variant that leaves the entries that are mappings as they are
MaskedValues_LeavesOnly(m) ==
  [k \in DOMAIN m |-> IF m[k].t \in {"smap", "gmap"} THEN m[k]
                      ELSE StrV(generateMask(Sprintf(m[k])))]

\* lines 75-77 and 82-84: every entry becomes the mask of its %v text
MaskedValues(m) == [k \in DOMAIN m |-> StrV(generateMask(Sprintf(m[k])))]

\* parent is the fields of the document; the result is the fields after the call
maskMap(parent, key) ==
  IF key \notin DOMAIN parent THEN parent
  ELSE LET v == parent[key]
       IN  IF v.t = "smap" THEN [parent EXCEPT ![key] = SMap(MaskedValues(v.m))]
           ELSE IF v.t = "gmap" THEN [parent EXCEPT ![key] = GMap(MaskedValues(v.m))]
           ELSE parent

\* for _, rootKey := range config.RootKeys { maskMap(m, rootKey) }
RECURSIVE MaskRootKeys(_, _, _)
MaskRootKeys(m, rootKeys, i) ==
  IF i > Len(rootKeys) THEN m
  ELSE MaskRootKeys(maskMap(m, rootKeys[i]), rootKeys, i + 1)

\* a variant that masks data, stringData and binaryData whatever the kind is
MaskDoc_AnyKind(doc, rules) ==
  IF doc.t # "smap" THEN doc
  ELSE IF "kind" \notin DOMAIN doc.m THEN doc
  ELSE IF doc.m["kind"].t # "str" THEN doc
  ELSE SMap(MaskRootKeys(doc.m, <<"data", "stringData", "binaryData">>, 1))

\* one iteration of maskSensitiveData's loop: the document afterwards
MaskDoc(doc, rules) ==
  IF doc.t # "smap" THEN doc
  ELSE IF "kind" \notin DOMAIN doc.m THEN doc
  ELSE IF doc.m["kind"].t # "str" THEN doc
  ELSE LET normalizedKind == ToLower(doc.m["kind"].s)
       IN  IF normalizedKind \in DOMAIN rules
           THEN SMap(MaskRootKeys(doc.m, rules[normalizedKind], 1))
           ELSE doc

\* the documents after the in-place masking
maskSensitiveData(docs, rules) == [i \in 1..Len(docs) |-> MaskDoc(docs[i], rules)]

(***************************************************************************)
(* decodeDocs.  A stream is a sequence of documents, each a node or text   *)
(* the YAML parser rejects.                                                *)
(***************************************************************************)
BadNode == [k |-> "bad"]

\* a variant that skips what does not parse and reports no error
decodeDocs_Partial(data) ==
  LET good == SelectSeq(data, LAMBDA n : n # BadNode)
  IN  [docs |-> [i \in 1..Len(good) |-> DecodeNode(good[i])], err |-> FALSE]

\* the documents, or the decoder's error
decodeDocs(data) ==
  IF \E i \in 1..Len(data) : data[i] = BadNode
  THEN [docs |-> <<>>, err |-> TRUE]
  ELSE [docs |-> [i \in 1..Len(data) |-> DecodeNode(data[i])], err |-> FALSE]

(***************************************************************************)
(* marshalDocs: yaml.v3's encoder with an indent of 2.  The text is a      *)
(* sequence of lines, each a string without its newline.                   *)
(***************************************************************************)
\* characters yaml does not let a plain scalar start with
Indicators == {"*", "&", "!", "|", ">", "'", "%", "@", "#", "-", "?", ":", "[", "]", "{", "}", ","}

\* the text of a scalar
ScalarText(val) ==
  IF val.t = "nil" THEN sNull
  ELSE IF val.t = "int" THEN Itoa(val.n)
  ELSE IF ResolveTag(val.s, FALSE) # "str" THEN <<"\"">> \o val.s \o <<"\"">>
  ELSE IF val.s[1] \in Indicators THEN <<"'">> \o val.s \o <<"'">>
  ELSE val.s

IsEmptyMap(val) == val.t \in {"smap", "gmap"} /\ DOMAIN val.m = {}

\* what follows "key: " on the line of the key
InlineText(val) == IF IsEmptyMap(val) THEN <<"{", "}">> ELSE ScalarText(val)

RECURSIVE MarshalMap(_, _, _, _)
\* the lines of the entries of m from position i of its sorted keys on
MarshalMap(m, keys, i, indent) ==
  IF i > Len(keys) THEN <<>>
  ELSE LET key == keys[i]
           val == m[key]
           lhs == Repeat(" ", indent) \o KeyText[key] \o <<":">>
       IN  (IF val.t \in {"smap", "gmap"} /\ ~IsEmptyMap(val)
            THEN <<lhs>> \o MarshalMap(val.m, SortedKeys(val.m), 1, indent + 2)
            ELSE << lhs \o <<" ">> \o InlineText(val) >>)
           \o MarshalMap(m, keys, i + 1, indent)

\* enc.Encode(doc)
EncodeDoc(doc) ==
  IF doc.t \in {"smap", "gmap"} /\ ~IsEmptyMap(doc)
  THEN MarshalMap(doc.m, SortedKeys(doc.m), 1, 0)
  ELSE << InlineText(doc) >>

sDocSep == <<"-","-","-">>

RECURSIVE marshalDocsFrom(_, _)
marshalDocsFrom(docs, i) ==
  IF i > Len(docs) THEN <<>>
  ELSE (IF i > 1 THEN <<sDocSep>> ELSE <<>>) \o EncodeDoc(docs[i])
       \o marshalDocsFrom(docs, i + 1)

marshalDocs(docs) == marshalDocsFrom(docs, 1)

(***************************************************************************)
(* difflib.GetUnifiedDiffString with Context: 3.  The text is a sequence   *)
(* of lines; it is empty exactly when the two inputs are equal.  The       *)
(* changed region (the lines between the common prefix and the common      *)
(* suffix) is written as one hunk, the removed lines before the added.     *)
(***************************************************************************)
Context == 3

Min(a, b) == IF a < b THEN a ELSE b

\* the number of leading lines a and b share
CommonPrefix(a, b) ==
  CHOOSE n \in 0..Min(Len(a), Len(b)) :
    /\ Take(a, n) = Take(b, n)
    /\ (n < Min(Len(a), Len(b)) => a[n + 1] # b[n + 1])

\* the number of trailing lines a and b share beyond the common prefix p
CommonSuffix(a, b, p) ==
  CHOOSE n \in 0..(Min(Len(a), Len(b)) - p) :
    /\ \A j \in 1..n : a[Len(a) - n + j] = b[Len(b) - n + j]
    /\ (n < Min(Len(a), Len(b)) - p => a[Len(a) - n] # b[Len(b) - n])

sFromFile == <<"-","-","-"," ","O","r","i","g","i","n","a","l">>
sToFile   == <<"+","+","+"," ","M","o","d","i","f","i","e","d">>

\* difflib's formatRangeUnified for the lines start+1 .. stop
FormatRange(start, stop) ==
  LET length == stop - start
  IN  IF length = 1 THEN Itoa(start + 1)
      ELSE IF length = 0 THEN Itoa(start) \o <<",">> \o Itoa(0)
      ELSE Itoa(start + 1) \o <<",">> \o Itoa(length)

Prefixed(c, lines) == [j \in 1..Len(lines) |-> <<c>> \o lines[j]]

GetUnifiedDiffString(a, b) ==
  IF a = b THEN <<>>
  ELSE LET p    == CommonPrefix(a, b)
           q    == CommonSuffix(a, b, p)
           lo   == p - Min(p, Context)
           hiA  == Len(a) - q + Min(q, Context)
           hiB  == Len(b) - q + Min(q, Context)
       IN  << sFromFile, sToFile,
              <<"@","@"," ","-">> \o FormatRange(lo, hiA) \o <<" ","+">>
                \o FormatRange(lo, hiB) \o <<" ","@","@">> >>
           \o Prefixed(" ", SubSeq(a, lo + 1, p))
           \o Prefixed("-", SubSeq(a, p + 1, Len(a) - q))
           \o Prefixed("+", SubSeq(b, p + 1, Len(b) - q))
           \o Prefixed(" ", SubSeq(a, Len(a) - q + 1, hiA))

(***************************************************************************)
(* colorizeDiff: each line wrapped in the colour of its class.             *)
(***************************************************************************)
HasPrefix(line, prefix) ==
  Len(line) >= Len(prefix) /\ Take(line, Len(prefix)) = prefix

\* the class colorizeDiff gives a line
LineClass(line) ==
  IF HasPrefix(line, <<"+","+","+">>) \/ HasPrefix(line, <<"-","-","-">>) THEN "fileHeader"
  ELSE IF HasPrefix(line, <<"@","@">>) THEN "hunkHeader"
  ELSE IF HasPrefix(line, <<"+">>) THEN "addition"
  ELSE IF HasPrefix(line, <<"-">>) THEN "deletion"
  ELSE "context"

\* the ANSI code gookit/color starts a line of the class with
ColorCode ==
  [ fileHeader |-> "ESC[1m", hunkHeader |-> "ESC[36m", addition |-> "ESC[32m",
    deletion |-> "ESC[31m" ]

ColorReset == "ESC[0m"

colorizeDiff(text) ==
  [j \in 1..Len(text) |->
     IF LineClass(text[j]) = "context" THEN text[j]
     ELSE <<ColorCode[LineClass(text[j])]>> \o text[j] \o <<ColorReset>>]

(***************************************************************************)
(* Diff                                                                    *)
(***************************************************************************)
\* "# No Changes"
sNoChanges == << <<"#"," ","N","o"," ","C","h","a","n","g","e","s">> >>

\* a variant that serializes both sequences before they are masked
Diff_SerializeBeforeMask(fileA, fileB, opts) ==
  LET decA == decodeDocs(fileA)
      decB == decodeDocs(fileB)
  IN  IF decA.err THEN [text |-> <<>>, err |-> "failed to decode first file"]
      ELSE IF decB.err THEN [text |-> <<>>, err |-> "failed to decode second file"]
      ELSE
        LET filtering == Len(opts.IncludeKinds) > 0 \/ Len(opts.ExcludeKinds) > 0
            filteredA == IF filtering
                         THEN filterResources(decA.docs, opts.IncludeKinds, opts.ExcludeKinds)
                         ELSE decA.docs
            filteredB == IF filtering
                         THEN filterResources(decB.docs, opts.IncludeKinds, opts.ExcludeKinds)
                         ELSE decB.docs
            yamlA == marshalDocs(filteredA)
            yamlB == marshalDocs(filteredB)
            text  == GetUnifiedDiffString(yamlA, yamlB)
        IN  IF text = <<>> THEN [text |-> sNoChanges, err |-> ""]
            ELSE [text |-> colorizeDiff(text), err |-> ""]

\* only the first sequence is masked
Diff_MaskFirstOnly(fileA, fileB, opts) ==
  LET decA == decodeDocs(fileA)
      decB == decodeDocs(fileB)
  IN  IF decA.err THEN [text |-> <<>>, err |-> "failed to decode first file"]
      ELSE IF decB.err THEN [text |-> <<>>, err |-> "failed to decode second file"]
      ELSE
        LET filtering == Len(opts.IncludeKinds) > 0 \/ Len(opts.ExcludeKinds) > 0
            filteredA == IF filtering
                         THEN filterResources(decA.docs, opts.IncludeKinds, opts.ExcludeKinds)
                         ELSE decA.docs
            filteredB == IF filtering
                         THEN filterResources(decB.docs, opts.IncludeKinds, opts.ExcludeKinds)
                         ELSE decB.docs
            docsA == IF opts.SecureMode
                     THEN maskSensitiveData(filteredA, DefaultMaskingRules)
                     ELSE filteredA
            docsB == filteredB
            text  == GetUnifiedDiffString(marshalDocs(docsA), marshalDocs(docsB))
        IN  IF text = <<>> THEN [text |-> sNoChanges, err |-> ""]
            ELSE [text |-> colorizeDiff(text), err |-> ""]

\* the returned text and error ("" for nil)
Diff(fileA, fileB, opts) ==
  LET decA == decodeDocs(fileA)
      decB == decodeDocs(fileB)
  IN  IF decA.err THEN [text |-> <<>>, err |-> "failed to decode first file"]
      ELSE IF decB.err THEN [text |-> <<>>, err |-> "failed to decode second file"]
      ELSE
        LET filtering == Len(opts.IncludeKinds) > 0 \/ Len(opts.ExcludeKinds) > 0
            filteredA == IF filtering
                         THEN filterResources(decA.docs, opts.IncludeKinds, opts.ExcludeKinds)
                         ELSE decA.docs
            filteredB == IF filtering
                         THEN filterResources(decB.docs, opts.IncludeKinds, opts.ExcludeKinds)
                         ELSE decB.docs
            docsA == IF opts.SecureMode
                     THEN maskSensitiveData(filteredA, DefaultMaskingRules)
                     ELSE filteredA
            docsB == IF opts.SecureMode
                     THEN maskSensitiveData(filteredB, DefaultMaskingRules)
                     ELSE filteredB
            yamlA == marshalDocs(docsA)
            yamlB == marshalDocs(docsB)
            text  == GetUnifiedDiffString(yamlA, yamlB)
        IN  IF text = <<>> THEN [text |-> sNoChanges, err |-> ""]
            ELSE [text |-> colorizeDiff(text), err |-> ""]

(***************************************************************************)
(* The cluster package.  An object (unstructured.Unstructured) is its      *)
(* Object map, a map[string]interface{} of decoded JSON.  The resources    *)
(* modelled are of namespaced kinds.                                       *)
(***************************************************************************)
None == [t |-> "none"]

sDefault == <<"d","e","f","a","u","l","t">>
sKdiff   == <<"k","d","i","f","f">>

\* the JSON form of a decoded yaml document: every mapping has string keys
RECURSIVE ToJSON(_)
ToJSON(val) ==
  IF val.t \in {"smap", "gmap"}
  THEN SMap([key \in DOMAIN val.m |-> ToJSON(val.m[key])])
  ELSE val

\* len(u.Object) == 0
IsEmptyObject(u) == u.t # "smap" \/ DOMAIN u.m = {}

\* the objects of the documents, or the decoder's error
ParseResources(data) ==
  IF \E i \in 1..Len(data) : data[i] = BadNode
  THEN [objs |-> <<>>, err |-> TRUE]
  ELSE LET all == [i \in 1..Len(data) |-> ToJSON(DecodeNode(data[i]))]
       IN  [objs |-> SelectSeq(all, LAMBDA u : ~IsEmptyObject(u)), err |-> FALSE]

\* unstructured.NestedString: the string at obj[field][key], or ""
NestedString(obj, field, key) ==
  IF /\ field \in DOMAIN obj.m
     /\ obj.m[field].t = "smap"
     /\ key \in DOMAIN obj.m[field].m
     /\ obj.m[field].m[key].t = "str"
  THEN obj.m[field].m[key].s
  ELSE <<>>

GetName(obj)      == NestedString(obj, "metadata", "name")
GetNamespace(obj) == NestedString(obj, "metadata", "namespace")

\* gvk.Kind
GetKind(obj) ==
  IF "kind" \in DOMAIN obj.m /\ obj.m["kind"].t = "str" THEN obj.m["kind"].s ELSE <<>>

\* a variant that removes nothing
RemoveNestedField_Keep(obj, field, key) == obj

\* unstructured.RemoveNestedField(obj, field, key)
RemoveNestedField(obj, field, key) ==
  IF field \in DOMAIN obj.m /\ obj.m[field].t = "smap"
  THEN SMap([f \in DOMAIN obj.m |->
               IF f = field
               THEN SMap([k \in DOMAIN obj.m[f].m \ {key} |-> obj.m[f].m[k]])
               ELSE obj.m[f]])
  ELSE obj

\* obj with obj[field][key] set to val
SetNestedField(obj, field, key, val) ==
  LET old   == IF field \in DOMAIN obj.m /\ obj.m[field].t = "smap"
               THEN obj.m[field].m ELSE <<>>
      inner == [k \in DOMAIN old \cup {key} |-> IF k = key THEN val ELSE old[k]]
  IN  SMap([f \in DOMAIN obj.m \cup {field} |->
              IF f = field THEN SMap(inner) ELSE obj.m[f]])

\* GetResource's namespace (lines 166-169)
GetTargetNamespace(namespace, clientNamespace) ==
  IF namespace = <<>> THEN clientNamespace ELSE namespace

\* ServerSideApplyDryRun's namespace (lines 216-219)
ApplyNamespace(local, clientNamespace) ==
  IF GetNamespace(local) = <<>> THEN clientNamespace ELSE GetNamespace(local)

\* the namespace diffLocalWithCluster fetches from and prints
diffNamespace(localRes) ==
  IF GetNamespace(localRes) = <<>> THEN sDefault ELSE GetNamespace(localRes)

\* a variant that recognises no error as NotFound
IsNotFound_Never(err) == FALSE

\* errors.IsNotFound
IsNotFound(err) == err = "NotFound"

\* a variant that gives up after no fetch
FetchFatal_Never(err) == FALSE

\* the condition under which diffLocalWithCluster gives up after the fetch
FetchFatal(err) == err # "" /\ ~IsNotFound(err)

(***************************************************************************)
(* The cluster behind the dynamic client.  A Get answers with the object   *)
(* the cluster holds under the name, with NotFound, or with another error; *)
(* an apply patch answers with the merge of the local object into the      *)
(* object the cluster holds, owned by the field manager, or with an error. *)
(***************************************************************************)
sKubectl == <<"k","u","b","e","c","t","l">>

\* a second secret value
sValue8b == <<"b","z","5","v","m","c","g","i">>

GetOutcomes == {"same", "changed", "NotFound", "Timeout"}

ManagedBy(manager) == SMap(Fields({ <<"manager", StrV(manager)>> }))

\* the object as the cluster stores it once applied
Stored(obj, namespace, manager) ==
  SetNestedField(SetNestedField(obj, "metadata", "namespace", StrV(namespace)),
                 "metadata", "managedFields", ManagedBy(manager))

\* an object that another manager has changed since
Drifted(obj) ==
  SMap([f \in DOMAIN obj.m |->
          IF f = "data" THEN SMap(Fields({ <<"password", StrV(sValue8b)>> }))
          ELSE IF f = "port" THEN IntV(81)
          ELSE obj.m[f]])

\* dynamicClient.Resource(...).Namespace(targetNamespace).Get(name)
ClusterGet(local, targetNamespace, outcome) ==
  IF outcome = "same"
  THEN [obj |-> Stored(local, targetNamespace, sKubectl), err |-> ""]
  ELSE IF outcome = "changed"
  THEN [obj |-> Stored(Drifted(local), targetNamespace, sKubectl), err |-> ""]
  ELSE [obj |-> None, err |-> outcome]

RECURSIVE Merge(_, _)
\* the fields of the applied object win over those the cluster holds
Merge(base, applied) ==
  IF base.t = "smap" /\ applied.t = "smap"
  THEN SMap([f \in DOMAIN base.m \cup DOMAIN applied.m |->
               IF f \notin DOMAIN applied.m THEN base.m[f]
               ELSE IF f \notin DOMAIN base.m THEN applied.m[f]
               ELSE Merge(base.m[f], applied.m[f])])
  ELSE applied

\* a variant that leaves DryRun unset
patchOptions_Persist == [FieldManager |-> sKdiff, DryRun |-> <<>>, Force |-> TRUE]

\* lines 236-243: the options of the patch
patchOptions == [FieldManager |-> sKdiff, DryRun |-> <<"All">>, Force |-> TRUE]

\* drClient.Patch(name, ApplyPatchType, data, options): the answer, and the
\* objects the cluster stores because of it (none when it is a dry run)
ClusterPatch(base, local, namespace, options, ok) ==
  IF ok
  THEN LET obj == Stored(IF base = None THEN local ELSE Merge(base, local),
                         namespace, options.FieldManager)
       IN  [obj |-> obj, err |-> "",
            stored |-> IF "All" \in {options.DryRun[i] : i \in 1..Len(options.DryRun)}
                       THEN <<>> ELSE <<obj>>]
  ELSE [obj |-> None, err |-> "Conflict", stored |-> <<>>]

(***************************************************************************)
(* yaml.Marshal of an object, as the stream of documents that Diff's       *)
(* decoder reads back from the bytes.                                      *)
(***************************************************************************)
RECURSIVE ToNode(_)
ToNode(val) ==
  IF val.t \in {"smap", "gmap"} THEN MapNode([key \in DOMAIN val.m |-> ToNode(val.m[key])])
  ELSE IF val.t = "nil" THEN ScalarNode(sNull, FALSE)
  ELSE IF val.t = "int" THEN ScalarNode(Itoa(val.n), FALSE)
  ELSE ScalarNode(val.s, ResolveTag(val.s, FALSE) # "str")

\* the bytes, or nil and the serialiser's error
yamlMarshal(obj, ok) ==
  IF ok THEN [bytes |-> << ToNode(obj) >>, err |-> ""]
  ELSE [bytes |-> <<>>, err |-> "marshal error"]

(***************************************************************************)
(* Before any call, and outside cluster mode.                              *)
(***************************************************************************)
NoCalls ==
  /\ maskCalls = <<>> /\ filterCall = <<>> /\ maskDocsCall = <<>> /\ diffCall = <<>>
  /\ listCall = <<>>

ClusterIdle ==
  /\ args = None /\ pc = "idle" /\ files = <<>> /\ fileIdx = 0
  /\ resources = <<>> /\ resIdx = 0 /\ liveRes = None /\ dryRunRes = None
  /\ calls = <<>> /\ printed = <<>> /\ lastDiff = None /\ retErr = ""
  /\ persisted = <<>>

(***************************************************************************)
(* generateMask applied to a few values, one call at a time.               *)
(***************************************************************************)
InitMask == NoCalls /\ ClusterIdle

GenerateMask(original) ==
  /\ Len(maskCalls) < MaxCalls
  /\ maskCalls' = Append(maskCalls, [original |-> original,
                                      result   |-> generateMask(original)])
  /\ UNCHANGED <<filterCall, maskDocsCall, diffCall, listCall, clusterVars>>

NextMask == \E original \in SecretValues : GenerateMask(original)

SpecMask == InitMask /\ [][NextMask]_vars

(***************************************************************************)
(* filterResources applied to one document sequence.                       *)
(***************************************************************************)
\* the kind field of the documents: absent, a string, or not a string
KindFieldNodes ==
  { {} } \cup
  { {<<"kind", ScalarNode(text, FALSE)>>} :
      text \in {sSecret, sServiceUc, <<"7">>} }

\* a key that is not a string makes the document a map[interface{}]interface{}
IntKeyNodes == { {}, {<<"1", ScalarNode(<<"x">>, FALSE)>>} }

FilterNodes ==
  { MapNode(Fields(kf \cup ik)) : kf \in KindFieldNodes, ik \in IntKeyNodes }
  \cup { ScalarNode(<<"h","i">>, FALSE), ScalarNode(<<>>, FALSE) }

FilterDocs == { DecodeNode(n) : n \in FilterNodes }

\* the document sequences filtered
FilterInputs == SeqsUpTo(FilterDocs, MaxDocs)

\* the -i / -e lists, in the user's letter case
FilterLists == { <<>>, <<sSecret>>, <<sService>>, <<sSecret, sService>> }

InitFilter == NoCalls /\ ClusterIdle

FilterResources(docs, includeKinds, excludeKinds) ==
  /\ filterCall = <<>>
  /\ filterCall' = << [docs         |-> docs,
                       includeKinds |-> includeKinds,
                       excludeKinds |-> excludeKinds,
                       filtered     |-> filterResources(docs, includeKinds, excludeKinds)] >>
  /\ UNCHANGED <<maskCalls, maskDocsCall, diffCall, listCall, clusterVars>>

NextFilter ==
  /\ filterCall = <<>>
  /\ \E docs \in FilterInputs :
       \E includeKinds \in FilterLists :
         \E excludeKinds \in FilterLists :
           FilterResources(docs, includeKinds, excludeKinds)

SpecFilter == InitFilter /\ [][NextFilter]_vars

(***************************************************************************)
(* maskSensitiveData applied to one document sequence, with the default    *)
(* rules.                                                                  *)
(***************************************************************************)
\* secret values of 8, 10 and 3 characters
sValue8  == <<"a","b","c","1","2","3","=","=">>
sValue10 == <<"b","z","5","v","m","c","g","i","p","8">>
sValue3  == <<"e","9","w">>

Plain(text)  == ScalarNode(text, FALSE)
Quoted(text) == ScalarNode(text, TRUE)

MaskKindNodes ==
  { {} } \cup
  { {<<"kind", Plain(text)>>} : text \in {sSecret, sConfigMapUc, sServiceUc, <<"7">>} }

\* what the documents hold under data, stringData and binaryData
SensitiveNodes ==
  { {},
    \* data: string, int and null leaves
    { <<"data", MapNode(Fields({ <<"password", Plain(sValue8)>>,
                                 <<"port", Plain(<<"7">>)>>,
                                 <<"token", Plain(<<>>)>> }))>> },
    \* data: a mapping with a key that is no string
    { <<"data", MapNode(Fields({ <<"password", Plain(sValue10)>>,
                                 <<"1", Plain(<<"x">>)>> }))>> },
    \* stringData and binaryData; data is no mapping
    { <<"stringData", MapNode(Fields({ <<"token", Plain(sValue10)>> }))>>,
      <<"binaryData", MapNode(Fields({ <<"blob", Plain(sValue3)>> }))>>,
      <<"data", Plain(<<"x">>)>> },
    \* data: a nested mapping and an empty string
    { <<"data", MapNode(Fields({ <<"nested", MapNode(Fields({ <<"a", Plain(<<"b">>)>> }))>>,
                                 <<"empty", Quoted(<<>>)>> }))>> } }

MetadataNode == { <<"metadata", MapNode(Fields({ <<"name", Plain(<<"x">>)>> }))>> }

\* every kind with every layout; the Secrets and ConfigMaps also with a
\* top-level key that is no string; and two documents that are no mapping
MaskNodes ==
  { MapNode(Fields(kf \cup sn \cup MetadataNode)) :
      kf \in MaskKindNodes, sn \in SensitiveNodes }
  \cup
  { MapNode(Fields(kf \cup sn \cup ik \cup MetadataNode)) :
      kf \in { {<<"kind", Plain(text)>>} : text \in {sSecret, sConfigMapUc} },
      sn \in { x \in SensitiveNodes : \E p \in x : p[1] = "data" /\ p[2].k = "map" },
      ik \in IntKeyNodes \ { {} } }
  \cup { Plain(<<"h","i">>), Plain(<<>>) }

MaskDocs == { DecodeNode(n) : n \in MaskNodes }

MaskInputs == SeqsUpTo(MaskDocs, MaxMaskDocs)

InitMaskDocs == NoCalls /\ ClusterIdle

MaskSensitiveData(docs) ==
  /\ maskDocsCall = <<>> /\ diffCall = <<>>
  /\ maskDocsCall' = << [docs   |-> docs,
                         masked |-> maskSensitiveData(docs, DefaultMaskingRules)] >>
  /\ UNCHANGED <<maskCalls, filterCall, diffCall, listCall, clusterVars>>

NextMaskDocs ==
  /\ maskDocsCall = <<>>
  /\ \E docs \in MaskInputs : MaskSensitiveData(docs)

SpecMaskDocs == InitMaskDocs /\ [][NextMaskDocs]_vars

(***************************************************************************)
(* Diff applied to two input streams.                                      *)
(***************************************************************************)
SecretNode(password, extra) ==
  MapNode(Fields({ <<"kind", Plain(sSecret)>>,
                   <<"data", MapNode(Fields({ <<"password", Plain(password)>> }))>> }
                 \cup extra \cup MetadataNode))

\* the documents of the streams: two Secrets that differ in the password, a
\* Service, an empty document, and text that is no YAML
DiffNodes ==
  { SecretNode(sValue8, {}),
    SecretNode(sValue8b, {}),
    MapNode(Fields({ <<"kind", Plain(sServiceUc)>> } \cup MetadataNode)),
    Plain(<<>>),
    BadNode }

DiffOptions ==
  [ SecureMode   : BOOLEAN,
    IncludeKinds : {<<>>, <<sSecret>>},
    ExcludeKinds : {<<>>, <<sService>>} ]

InitDiff == NoCalls /\ ClusterIdle

DiffCall(fileA, fileB, opts) ==
  /\ diffCall = <<>>
  /\ LET r == Diff(fileA, fileB, opts)
     IN  diffCall' = << [fileA |-> fileA, fileB |-> fileB, opts |-> opts,
                         text |-> r.text, err |-> r.err] >>
  /\ UNCHANGED <<maskCalls, filterCall, maskDocsCall, listCall, clusterVars>>

DiffStreams == SeqsUpTo(DiffNodes, MaxDiffDocs)

\* the pairs of input streams
DiffInputs ==
  { in \in DiffStreams \X DiffStreams : Len(in[1]) + Len(in[2]) <= MaxDiffDocs }

NextDiff ==
  /\ diffCall = <<>>
  /\ \E in \in DiffInputs :
       \E opts \in DiffOptions :
         DiffCall(in[1], in[2], opts)

SpecDiff == InitDiff /\ [][NextDiff]_vars

(***************************************************************************)
(* Cluster mode over a directory: runClusterDirDiff, and for each file     *)
(* diffLocalWithCluster.  The run is sequential; each action is one step   *)
(* of it, up to and including its next call of the cluster or of Diff.     *)
(***************************************************************************)
MaxFiles == 3

sProd == <<"p","r","o","d">>
sTeam == <<"t","e","a","m">>
sV1   == <<"v","1">>

\* a Secret without a namespace and a Service in the namespace prod
ResourceSecret ==
  MapNode(Fields({ <<"apiVersion", Plain(sV1)>>,
                   <<"kind", Plain(sSecret)>>,
                   <<"metadata", MapNode(Fields({ <<"name", Plain(<<"x">>)>> }))>>,
                   <<"data", MapNode(Fields({ <<"password", Plain(sValue8)>> }))>> }))

ResourceService ==
  MapNode(Fields({ <<"apiVersion", Plain(sV1)>>,
                   <<"kind", Plain(sService)>>,
                   <<"metadata", MapNode(Fields({ <<"name", Plain(<<"y">>)>>,
                                                  <<"namespace", Plain(sProd)>> }))>>,
                   <<"port", Plain(<<"8","0">>)>> }))

\* the files of a directory: three resources, a file that does not parse, a
\* file that cannot be read
ClusterFiles ==
  { [readable |-> TRUE,  data |-> <<ResourceService, ResourceSecret, ResourceService>>],
    [readable |-> TRUE,  data |-> <<ResourceSecret, BadNode>>],
    [readable |-> FALSE, data |-> <<>>] }

\* a directory lists its files in the order of their names; the name of a
\* file is its position in that order
ClusterDirs ==
  { [readable |-> FALSE, entries |-> <<>>] }
  \cup { [readable |-> TRUE, entries |-> e] : e \in SeqsUpTo(ClusterFiles, MaxFiles) }

ClusterOptions ==
  { [SecureMode |-> sm, IncludeKinds |-> <<>>, ExcludeKinds |-> <<>>] : sm \in BOOLEAN }

ClusterArgs ==
  [ dir : ClusterDirs, opts : ClusterOptions, namespace : {sDefault, sTeam} ]

InitCluster ==
  /\ NoCalls
  /\ args \in ClusterArgs
  /\ pc = "start" /\ files = <<>> /\ fileIdx = 0
  /\ resources = <<>> /\ resIdx = 0 /\ liveRes = None /\ dryRunRes = None
  /\ calls = <<>> /\ printed = <<>> /\ lastDiff = None /\ retErr = ""
  /\ persisted = <<>>

\* loader.ListYAMLFiles on a directory of YAML files
ListFileNames(dir) == [i \in 1..Len(dir.entries) |-> i]

\* sort.Strings
SortStrings(names) == SortSeq(names, LAMBDA a, b : a < b)

\* where the loop over the files goes with index i
FileLoopPc(i) == IF i <= Len(files) THEN "loadFile" ELSE "done"

\* a variant that goes on with the next file after an error
Fail_ContinueBatch(msg) ==
  /\ retErr' = msg
  /\ fileIdx' = fileIdx + 1
  /\ pc' = FileLoopPc(fileIdx + 1)

\* return err: the run is over
Fail(msg) ==
  /\ retErr' = msg
  /\ fileIdx' = fileIdx
  /\ pc' = "done"

Call(op, namespace) ==
  [op |-> op, file |-> fileIdx, res |-> resIdx, namespace |-> namespace]

\* lines 259-265
RunClusterDirDiff ==
  /\ pc = "start"
  /\ IF ~args.dir.readable
     THEN Fail("failed to read directory") /\ UNCHANGED files
     ELSE LET names == SortStrings(ListFileNames(args.dir))
          IN  /\ files' = names
              /\ fileIdx' = 1
              /\ pc' = IF Len(names) >= 1 THEN "loadFile" ELSE "done"
              /\ UNCHANGED retErr
  /\ UNCHANGED <<args, resources, resIdx, liveRes, dryRunRes, calls, printed, lastDiff,
                 persisted>>
  /\ UNCHANGED callVars

\* lines 266-271 and 283-289: the next file is read and parsed
LoadFile ==
  /\ pc = "loadFile"
  /\ LET file   == args.dir.entries[files[fileIdx]]
         parsed == ParseResources(file.data)
     IN  /\ calls' = Append(calls, [op |-> "LoadFile", file |-> fileIdx,
                                    res |-> 0, namespace |-> <<>>])
         /\ IF ~file.readable
            THEN Fail("error reading") /\ UNCHANGED <<resources, resIdx>>
            ELSE IF parsed.err
            THEN Fail("failed to parse") /\ UNCHANGED <<resources, resIdx>>
            ELSE /\ resources' = parsed.objs
                 /\ resIdx' = 1
                 /\ IF Len(parsed.objs) >= 1
                    THEN pc' = "get" /\ UNCHANGED fileIdx
                    ELSE fileIdx' = fileIdx + 1 /\ pc' = FileLoopPc(fileIdx + 1)
                 /\ UNCHANGED retErr
  /\ UNCHANGED <<args, files, liveRes, dryRunRes, printed, lastDiff, persisted>>
  /\ UNCHANGED callVars

\* a variant that issues the fetch and goes on without its result
GetResource_NoWait(outcome) ==
  /\ pc = "get"
  /\ LET localRes == resources[resIdx]
         target   == GetTargetNamespace(diffNamespace(localRes), args.namespace)
     IN  calls' = Append(calls, Call("GetResource", target))
  /\ pc' = "apply"
  /\ UNCHANGED <<args, files, fileIdx, resources, resIdx, liveRes, dryRunRes,
                 printed, lastDiff, retErr, persisted>>
  /\ UNCHANGED callVars

\* lines 290-307: the live fetch of the current resource
GetResource(outcome) ==
  /\ pc = "get"
  /\ LET localRes == resources[resIdx]
         target   == GetTargetNamespace(diffNamespace(localRes), args.namespace)
         r        == ClusterGet(localRes, target, outcome)
     IN  /\ calls' = Append(calls, Call("GetResource", target))
         /\ liveRes' = [obj |-> r.obj, err |-> r.err, namespace |-> target]
         /\ IF FetchFatal(r.err)
            THEN Fail("failed to fetch resource")
            ELSE pc' = "apply" /\ UNCHANGED <<retErr, fileIdx>>
  /\ UNCHANGED <<args, files, resources, resIdx, dryRunRes, printed, lastDiff, persisted>>
  /\ UNCHANGED callVars

\* lines 309-315: the dry-run apply of the current resource
ServerSideApplyDryRun(ok) ==
  /\ pc = "apply"
  /\ LET localRes  == resources[resIdx]
         namespace == ApplyNamespace(localRes, args.namespace)
         base      == IF liveRes.namespace = namespace THEN liveRes.obj ELSE None
         r         == ClusterPatch(base, localRes, namespace, patchOptions, ok)
     IN  /\ calls' = Append(calls, Call("ServerSideApplyDryRun", namespace))
         /\ dryRunRes' = [obj |-> r.obj, err |-> r.err, options |-> patchOptions]
         /\ persisted' = persisted \o r.stored
         /\ IF r.err # ""
            THEN Fail("failed to server-side dry-run apply")
            ELSE pc' = "diff" /\ UNCHANGED <<retErr, fileIdx>>
  /\ UNCHANGED <<args, files, resources, resIdx, liveRes, printed, lastDiff>>
  /\ UNCHANGED callVars

\* lines 317-355: both sides are cleaned, serialised, diffed and printed
\* liveOk, predictedOk: whether yaml.Marshal succeeds on the live and on
\* the predicted object; its error is assigned to _ (lines 331 and 337)
DiffAndPrint(liveOk, predictedOk) ==
  /\ pc = "diff"
  /\ liveRes.obj = None => liveOk
  /\ LET localRes  == resources[resIdx]
         live      == IF liveRes.obj # None
                      THEN yamlMarshal(RemoveNestedField(liveRes.obj, "metadata", "managedFields"),
                                       liveOk)
                      ELSE [bytes |-> <<>>, err |-> ""]
         predicted ==
           yamlMarshal(RemoveNestedField(dryRunRes.obj, "metadata", "managedFields"),
                       predictedOk)
         liveBytes      == live.bytes
         predictedBytes == predicted.bytes
         d == Diff(liveBytes, predictedBytes, args.opts)
     IN  /\ lastDiff' = [file |-> fileIdx, res |-> resIdx, liveErr |-> liveRes.err,
                         marshalErrs |-> <<live.err, predicted.err>>,
                         fileA |-> liveBytes, fileB |-> predictedBytes,
                         text |-> d.text, err |-> d.err]
         /\ IF d.err # ""
            THEN Fail(d.err) /\ UNCHANGED <<printed, resIdx>>
            ELSE /\ printed' = Append(printed,
                                 [file |-> fileIdx, res |-> resIdx,
                                  kind |-> GetKind(localRes),
                                  namespace |-> diffNamespace(localRes),
                                  name |-> GetName(localRes)])
                 /\ IF resIdx < Len(resources)
                    THEN resIdx' = resIdx + 1 /\ pc' = "get" /\ UNCHANGED fileIdx
                    ELSE /\ fileIdx' = fileIdx + 1
                         /\ pc' = FileLoopPc(fileIdx + 1)
                         /\ UNCHANGED resIdx
                 /\ UNCHANGED retErr
  /\ liveRes' = None
  /\ dryRunRes' = None
  /\ UNCHANGED <<args, files, resources, calls, persisted>>
  /\ UNCHANGED callVars

NextCluster ==
  \/ RunClusterDirDiff
  \/ LoadFile
  \/ \E outcome \in GetOutcomes : GetResource(outcome)
  \/ \E ok \in BOOLEAN : ServerSideApplyDryRun(ok)
  \/ \E liveOk, predictedOk \in BOOLEAN : DiffAndPrint(liveOk, predictedOk)

SpecCluster == InitCluster /\ [][NextCluster]_vars

(***************************************************************************)
(* loader.ListYAMLFiles applied to one directory.                          *)
(*                                                                         *)
(* A directory is [readable, entries]; an entry is [name, isDir, children] *)
(* where children are the names inside a subdirectory.                     *)
(***************************************************************************)
\* most entries of the directory handed to ListYAMLFiles
MaxEntries == 3

sDotYaml == <<".","y","a","m","l">>
sDotYml  == <<".","y","m","l">>

\* the bytes of the file names in ascending order: '.', 'A'..'Z', 'a'..'z'
ByteOrder == <<".">> \o Upper \o Lower

ByteOf(c) == CHOOSE i \in 1..Len(ByteOrder) : ByteOrder[i] = c

\* Go's a < b on strings: byte-wise lexical order
StringLess(a, b) ==
  \E i \in 1..(Len(b)) :
    /\ i <= Len(a) + 1
    /\ Take(a, i - 1) = Take(b, i - 1)
    /\ (i = Len(a) + 1 \/ ByteOf(a[i]) < ByteOf(b[i]))

FileEntry(name) == [name |-> name, isDir |-> FALSE, children |-> {}]

DirEntry(name, children) == [name |-> name, isDir |-> TRUE, children |-> children]

\* the entries a directory may hold; no two of them share a name
EntryUniverse ==
  { FileEntry(<<"a",".","y","a","m","l">>),
    FileEntry(<<"b",".","y","m","l">>),
    FileEntry(<<"C",".","Y","A","M","L">>),
    FileEntry(<<"D",".","Y","m","l">>),
    FileEntry(<<"n",".","t","x","t">>),
    FileEntry(<<"y","a","m","l">>),
    FileEntry(<<"x",".","y","a","m","l",".","b","a","k">>),
    FileEntry(sDotYml),
    DirEntry(<<"s">>, {<<"z",".","y","a","m","l">>}),
    DirEntry(<<"e",".","y","a","m","l">>, {<<"i",".","y","m","l">>}) }

Directories ==
  { [readable |-> TRUE, entries |-> es] :
      es \in {es \in SUBSET EntryUniverse : Cardinality(es) <= MaxEntries} }
  \cup { [readable |-> FALSE, entries |-> {}] }

\* os.ReadDir: the entries of the directory sorted by file name, or an error
ReadDir(dir) ==
  IF ~dir.readable
  THEN [entries |-> <<>>, err |-> "read directory"]
  ELSE [entries |->
          CHOOSE s \in [1..Cardinality(dir.entries) -> dir.entries] :
            \A i, j \in DOMAIN s : i < j => StringLess(s[i].name, s[j].name),
        err |-> ""]

\* filepath.Ext: the suffix that begins at the last dot of the name
Ext(name) ==
  LET dots == {i \in 1..Len(name) : name[i] = "."}
  IN  IF dots = {} THEN <<>>
      ELSE SubSeq(name, CHOOSE i \in dots : \A j \in dots : j <= i, Len(name))

\* a variant that takes a directory for a file
IsYAMLFile_AnyEntry(entry) ==
  LET ext == ToLower(Ext(entry.name))
  IN  ext = sDotYaml \/ ext = sDotYml

\* the test of the loop body: a non-directory with a YAML extension
IsYAMLFile(entry) ==
  /\ ~entry.isDir
  /\ LET ext == ToLower(Ext(entry.name))
     IN  ext = sDotYaml \/ ext = sDotYml

\* the names in files, or a nil list and an error
ListYAMLFiles(dir) ==
  LET read == ReadDir(dir)
  IN  IF read.err # ""
      THEN [files |-> <<>>, err |-> "failed to read directory"]
      ELSE LET kept == SelectSeq(read.entries, IsYAMLFile)
           IN  [files |-> [i \in 1..Len(kept) |-> kept[i].name], err |-> ""]

InitList == NoCalls /\ ClusterIdle

ListCall(dir) ==
  /\ listCall = <<>>
  /\ LET res == ListYAMLFiles(dir)
     IN  listCall' = <<[dir |-> dir, files |-> res.files, err |-> res.err]>>
  /\ UNCHANGED <<maskCalls, filterCall, maskDocsCall, diffCall, clusterVars>>

NextList == \E dir \in Directories : ListCall(dir)

SpecList == InitList /\ [][NextList]_vars

(***************************************************************************)
(* Claims about filterResources (checked under SpecFilter).                *)
(***************************************************************************)
\* a top-level mapping with a string 'kind'
KindDeterminable(doc) ==
  /\ doc.t \in {"smap", "gmap"}
  /\ "kind" \in DOMAIN doc.m
  /\ doc.m["kind"].t = "str"

\* the list names the kind, letter case aside
Names(kinds, doc) ==
  \E i \in 1..Len(kinds) : ToLower(kinds[i]) = ToLower(doc.m["kind"].s)

IsKept(call, doc) == \E j \in 1..Len(call.filtered) : call.filtered[j] = doc

\* C1: a document whose kind is determinable is kept if and only if (the
\* include set is empty or contains its lowercased kind) and the exclude set
\* does not contain its lowercased kind; a kind in both sets is dropped.
C1_KnownKindKeptIffIncludedAndNotExcluded ==
  \A c \in 1..Len(filterCall) :
    LET call == filterCall[c]
    IN  \A i \in 1..Len(call.docs) :
          LET doc == call.docs[i]
          IN  KindDeterminable(doc) =>
                ( IsKept(call, doc) <=>
                    /\ (Len(call.includeKinds) = 0 \/ Names(call.includeKinds, doc))
                    /\ ~Names(call.excludeKinds, doc) )

\* C1's case: a document whose kind is in both lists has been filtered out.
C1_Witness ==
  \E c \in 1..Len(filterCall) :
    LET call == filterCall[c]
    IN  \E i \in 1..Len(call.docs) :
          /\ KindDeterminable(call.docs[i])
          /\ Names(call.includeKinds, call.docs[i])
          /\ Names(call.excludeKinds, call.docs[i])
          /\ ~IsKept(call, call.docs[i])

\* C2: a document whose kind cannot be determined is dropped whenever the
\* include set is non-empty, whatever the exclude set is, and kept whenever
\* the include set is empty, even if the exclude set is non-empty.
C2_UnknownKindDroppedIffIncludeActive ==
  \A c \in 1..Len(filterCall) :
    LET call == filterCall[c]
    IN  \A i \in 1..Len(call.docs) :
          LET doc == call.docs[i]
          IN  ~KindDeterminable(doc) =>
                ( IsKept(call, doc) <=> Len(call.includeKinds) = 0 )

\* C2's case: with only an exclude list, a document without a kind, a
\* document with a non-string kind and a document that is no mapping are kept.
C2_Witness ==
  \E c \in 1..Len(filterCall) :
    LET call == filterCall[c]
    IN  /\ Len(call.includeKinds) = 0
        /\ Len(call.excludeKinds) > 0
        /\ \E i \in 1..Len(call.docs) :
             /\ call.docs[i].t \in {"smap", "gmap"}
             /\ ~KindDeterminable(call.docs[i])
             /\ IsKept(call, call.docs[i])
        /\ \E i \in 1..Len(call.docs) :
             /\ call.docs[i].t \notin {"smap", "gmap"}
             /\ IsKept(call, call.docs[i])

(***************************************************************************)
(* Claims about maskSensitiveData (checked under SpecMaskDocs).            *)
(***************************************************************************)
\* the sensitive top-level fields of a kind, by the default rules
SensitiveFields(doc) ==
  IF ~KindDeterminable(doc) THEN {}
  ELSE IF ToLower(doc.m["kind"].s) = ToLower(sSecret) THEN {"data", "stringData"}
  ELSE IF ToLower(doc.m["kind"].s) = ToLower(sConfigMap) THEN {"data", "binaryData"}
  ELSE {}

IsMapping(val) == val.t \in {"smap", "gmap"}

\* every value of the mapping at field f of the document is the mask of the
\* value it had before
FieldMasked(before, after, f) ==
  /\ IsMapping(after) /\ f \in DOMAIN after.m /\ IsMapping(after.m[f])
  /\ DOMAIN after.m[f].m = DOMAIN before.m[f].m
  /\ \A k \in DOMAIN before.m[f].m :
       after.m[f].m[k] = StrV(generateMask(Sprintf(before.m[f].m[k])))

\* C3: after maskSensitiveData with the default rules, in every document
\* whose kind is Secret or ConfigMap (letter case aside) every value of the
\* mapping at each configured top-level field is replaced by its mask, for
\* every decoded shape of the document, a map[interface{}]interface{} at the
\* top level included.
C3_SensitiveValuesMasked ==
  \A c \in 1..Len(maskDocsCall) :
    LET call == maskDocsCall[c]
    IN  \A i \in 1..Len(call.docs) :
          \A f \in SensitiveFields(call.docs[i]) :
            (f \in DOMAIN call.docs[i].m /\ IsMapping(call.docs[i].m[f]))
              => FieldMasked(call.docs[i], call.masked[i], f)

(***************************************************************************)
(* Claims about Diff (checked under SpecDiff).                             *)
(***************************************************************************)
Decodable(file) == \A i \in 1..Len(file) : file[i] # BadNode

\* C7: for every decodable input x and every combination of options,
\* Diff(x, x, opts) returns the sentinel "# No Changes" and no error; masking
\* a Secret on both sides of an identical pair produces no difference.
C7_IdenticalInputsYieldSentinel ==
  \A c \in 1..Len(diffCall) :
    LET call == diffCall[c]
    IN  (call.fileA = call.fileB /\ Decodable(call.fileA)) =>
          (call.text = sNoChanges /\ call.err = "")

\* C7's case: a Secret has been diffed against a copy of itself in secure
\* mode.
C7_Witness ==
  \E c \in 1..Len(diffCall) :
    LET call == diffCall[c]
    IN  /\ call.fileA = call.fileB
        /\ call.opts.SecureMode
        /\ call.opts.ExcludeKinds = <<>>
        /\ \E i \in 1..Len(call.fileA) : call.fileA[i] = SecretNode(sValue8, {})
        /\ call.text = sNoChanges

(***************************************************************************)
(* Claims about generateMask (checked under SpecMask).                     *)
(***************************************************************************)
IsHex(s) == \A j \in 1..Len(s) : \E d \in 1..Len(HexDigits) : s[j] = HexDigits[d]

\* C4: generateMask(x) has exactly the length of x: the empty string maps to
\* the empty string, an input of n <= 8 characters to n (digest) characters,
\* and an input of n > 8 characters to n - 8 mask characters followed by 8
\* (digest) characters, n in total.
C4_MaskPreservesLength ==
  \A i \in 1..Len(maskCalls) :
    LET x == maskCalls[i].original
        m == maskCalls[i].result
        n == Len(x)
    IN  /\ Len(m) = n
        /\ (n = 0 => m = <<>>)
        /\ (n <= MaskKeep => IsHex(m))
        /\ (n > MaskKeep =>
              /\ Take(m, n - MaskKeep) = Repeat(MaskChar, n - MaskKeep)
              /\ Len(SubSeq(m, n - MaskKeep + 1, n)) = MaskKeep
              /\ IsHex(SubSeq(m, n - MaskKeep + 1, n)))

\* C4's case: an empty, a short and a long value have been masked.
C4_Witness ==
  /\ \E i \in 1..Len(maskCalls) :
       /\ Len(maskCalls[i].original) > MaskKeep
       /\ Len(maskCalls[i].result) = Len(maskCalls[i].original)
  /\ \E i \in 1..Len(maskCalls) :
       /\ Len(maskCalls[i].original) \in 1..MaskKeep
       /\ Len(maskCalls[i].result) = Len(maskCalls[i].original)

\* C5: for an input longer than 8 characters the first (length - 8)
\* characters of the mask are all '*' and do not depend on the input: two
\* inputs of the same length > 8 have masks that agree on that whole prefix
\* (and so can differ only in the last 8 characters).
C5_PrefixIndependentOfInput ==
  \A i, j \in 1..Len(maskCalls) :
    LET x == maskCalls[i].original
        y == maskCalls[j].original
        n == Len(x)
    IN  (n > MaskKeep) =>
          /\ \A k \in 1..(n - MaskKeep) : maskCalls[i].result[k] = MaskChar
          /\ (Len(y) = n =>
                Take(maskCalls[i].result, n - MaskKeep)
                  = Take(maskCalls[j].result, n - MaskKeep))

\* C5's case: two different values of the same length > 8 have been masked,
\* and their masks differ (in the last 8 characters).
C5_Witness ==
  \E i, j \in 1..Len(maskCalls) :
    /\ maskCalls[i].original # maskCalls[j].original
    /\ Len(maskCalls[i].original) = Len(maskCalls[j].original)
    /\ Len(maskCalls[i].original) > MaskKeep
    /\ maskCalls[i].result # maskCalls[j].result

\* C6: two distinct inputs have distinct masks unless their digests collide,
\* for inputs of every length.
C6_DistinctInputsDistinctMasks ==
  \A i, j \in 1..Len(maskCalls) :
    (maskCalls[i].original # maskCalls[j].original) =>
       \/ maskCalls[i].result # maskCalls[j].result
       \/ Sum256(maskCalls[i].original) = Sum256(maskCalls[j].original)

(***************************************************************************)
(* Claims about cluster mode.                                              *)
(***************************************************************************)
\* the diff units printed for file f, as the positions of their resources
UnitsOf(units, f) ==
  LET us == SelectSeq(units, LAMBDA u : u.file = f)
  IN  [i \in 1..Len(us) |-> us[i].res]

\* the accessor calls made for file f, as the positions of their resources
AccessorCallsOf(log, f) ==
  LET cs == SelectSeq(log, LAMBDA c : c.file = f /\ c.op \in {"GetResource", "ServerSideApplyDryRun"})
  IN  [i \in 1..Len(cs) |-> cs[i].res]

\* C8: when the live fetch of a resource answers NotFound, the run goes on
\* to the dry-run apply of that resource without returning an error; when
\* the apply succeeds it goes on to the diff; and the diff has the empty
\* input as its live side and its unit is printed for the resource.
C8_NotFoundIsEmptyBaseline ==
  [][ /\ (pc = "get" /\ liveRes' # None /\ liveRes'.err = "NotFound")
         => (pc' = "apply" /\ retErr' = "")
      /\ (pc = "apply" /\ liveRes.err = "NotFound" /\ dryRunRes'.err = "")
         => (pc' = "diff" /\ retErr' = "")
      /\ (pc = "diff" /\ liveRes.err = "NotFound")
         => /\ lastDiff'.fileA = <<>>
            /\ lastDiff'.file = fileIdx /\ lastDiff'.res = resIdx
            /\ Len(printed') = Len(printed) + 1
            /\ printed'[Len(printed')].file = fileIdx
            /\ printed'[Len(printed')].res = resIdx
            /\ retErr' = ""
    ]_vars

\* a resource that is not in the cluster has been diffed against the empty
\* input and its unit, which shows the creation, is the last one printed
C8_Witness ==
  /\ lastDiff # None
  /\ lastDiff.liveErr = "NotFound"
  /\ lastDiff.fileA = <<>>
  /\ lastDiff.text # sNoChanges
  /\ printed # <<>>
  /\ printed[Len(printed)].file = lastDiff.file
  /\ printed[Len(printed)].res = lastDiff.res
  /\ retErr = ""

\* C9: the resources of a file are fetched, applied and printed one at a
\* time in document order; a live fetch that fails with another error than
\* NotFound, or a dry-run apply that fails, on resource k ends the run with
\* an error, and then the units of the resources before k of that file have
\* been printed and no accessor call has been made and no unit printed for a
\* resource after k of that file.
C9_FirstFatalFailureStopsTheFile ==
  /\ [](pc \in {"get", "apply", "diff"} =>
          /\ UnitsOf(printed, fileIdx) = [i \in 1..(resIdx - 1) |-> i]
          /\ \A i \in 1..Len(AccessorCallsOf(calls, fileIdx)) :
               /\ AccessorCallsOf(calls, fileIdx)[i] <= resIdx
               /\ i > 1 => AccessorCallsOf(calls, fileIdx)[i - 1] <= AccessorCallsOf(calls, fileIdx)[i])
  /\ [][ ( \/ (pc = "get" /\ liveRes' # None /\ liveRes'.err \notin {"", "NotFound"})
           \/ (pc = "apply" /\ dryRunRes' # None /\ dryRunRes'.err # "") )
         => /\ pc' = "done" /\ retErr' # ""
            /\ fileIdx' = fileIdx /\ resIdx' = resIdx
            /\ printed' = printed ]_vars
  /\ [](pc = "done" /\ retErr \in {"failed to fetch resource",
                                    "failed to server-side dry-run apply"} =>
          /\ UnitsOf(printed, fileIdx) = [i \in 1..(resIdx - 1) |-> i]
          /\ \A i \in 1..Len(AccessorCallsOf(calls, fileIdx)) :
               AccessorCallsOf(calls, fileIdx)[i] <= resIdx)

\* the second of three resources failed: the first one's unit is printed,
\* the third was never fetched
C9_Witness ==
  /\ pc = "done"
  /\ retErr \in {"failed to fetch resource", "failed to server-side dry-run apply"}
  /\ resIdx = 2
  /\ Len(resources) = 3
  /\ UnitsOf(printed, fileIdx) = <<1>>

\* the resources that file f of the run holds
ResourcesOfFile(f) == ParseResources(args.dir.entries[files[f]].data).objs

\* C10 as stated: when the run has ended with an error, every other file of
\* the batch has still been loaded and has its diff units printed.
C10_OtherFilesStillProcessed ==
  (pc = "done" /\ retErr # "") =>
    \A f \in 1..Len(files) :
      f # fileIdx =>
        /\ \E i \in 1..Len(calls) : calls[i].op = "LoadFile" /\ calls[i].file = f
        /\ Len(UnitsOf(printed, f)) = Len(ResourcesOfFile(f))

\* C10, amended: a fatal failure while a file is processed ends the whole
\* run with that error.  The files before it in the order of their names
\* have been processed completely, no later file is loaded or reconciled,
\* and nothing happens after the error has been returned.
C10_FailureAbortsBatch ==
  [][ /\ (retErr = "" /\ retErr' # "") =>
           /\ pc' = "done"
           /\ \A i \in 1..Len(calls') : calls'[i].file <= fileIdx
           /\ \A i \in 1..Len(printed') : printed'[i].file <= fileIdx
           /\ \A f \in 1..(fileIdx - 1) :
                UnitsOf(printed', f) = [i \in 1..Len(ResourcesOfFile(f)) |-> i]
      /\ (pc = "done" => FALSE)
    ]_vars

\* the run ended with an error in the second of three files: the units of
\* the first file are printed and the third file was never loaded
C10_Witness ==
  /\ pc = "done"
  /\ retErr # ""
  /\ fileIdx = 2
  /\ Len(files) = 3
  /\ UnitsOf(printed, 1) # <<>>
  /\ \A i \in 1..Len(calls) : calls[i].file <= 2

\* the accessor calls made for resource r of file f, in the order made
OpsOf(log, f, r) ==
  LET cs == SelectSeq(log, LAMBDA c : c.file = f /\ c.res = r /\ c.op # "LoadFile")
  IN  [i \in 1..Len(cs) |-> cs[i].op]

\* whether a serialised stream mentions metadata.managedFields
HasManagedFields(stream) ==
  \E i \in 1..Len(stream) :
    /\ stream[i].k = "map"
    /\ "metadata" \in DOMAIN stream[i].m
    /\ stream[i].m["metadata"].k = "map"
    /\ "managedFields" \in DOMAIN stream[i].m["metadata"].m

\* C11: each resource goes through live fetch, dry-run apply, normalisation
\* and diff in that order.  The apply is issued only when the fetch of the
\* same resource has returned, the diff is computed on the normalised sides
\* only after the apply has returned, a unit is printed only for a resource
\* that was fetched and applied, and the calls for one resource are not
\* interleaved with those for another.
C11_StepsInFixedOrder ==
  /\ [](\A i \in 1..Len(calls) :
          calls[i].op # "LoadFile" =>
            /\ OpsOf(calls, calls[i].file, calls[i].res)
                 \in {<<"GetResource">>, <<"GetResource", "ServerSideApplyDryRun">>}
            /\ \A j \in 1..(i - 1) :
                 \/ calls[j].file < calls[i].file
                 \/ calls[j].file = calls[i].file /\ calls[j].res <= calls[i].res)
  /\ [](\A i \in 1..Len(printed) :
          OpsOf(calls, printed[i].file, printed[i].res)
            = <<"GetResource", "ServerSideApplyDryRun">>)
  /\ [][ /\ (pc' = "apply" /\ pc # "apply") =>
              /\ pc = "get"
              /\ liveRes' # None /\ liveRes'.err \in {"", "NotFound"}
              /\ fileIdx' = fileIdx /\ resIdx' = resIdx
         /\ (pc' = "diff" /\ pc # "diff") =>
              /\ pc = "apply"
              /\ liveRes' = liveRes /\ liveRes # None
              /\ dryRunRes' # None /\ dryRunRes'.err = ""
              /\ fileIdx' = fileIdx /\ resIdx' = resIdx
         /\ (lastDiff' # lastDiff) =>
              /\ pc = "diff"
              /\ lastDiff'.file = fileIdx /\ lastDiff'.res = resIdx
              /\ ~HasManagedFields(lastDiff'.fileA)
              /\ ~HasManagedFields(lastDiff'.fileB)
              /\ calls' = calls
              /\ calls[Len(calls)] = [op |-> "ServerSideApplyDryRun", file |-> fileIdx,
                                      res |-> resIdx,
                                      namespace |-> calls[Len(calls)].namespace]
       ]_vars

\* two resources of one file have gone through all their steps, the first
\* one completely before the second
C11_Witness ==
  /\ Len(printed) >= 2
  /\ printed[1].file = 1 /\ printed[1].res = 1
  /\ printed[2].file = 1 /\ printed[2].res = 2
  /\ \E i \in 1..Len(calls) :
       /\ i + 3 <= Len(calls)
       /\ calls[i].op = "GetResource" /\ calls[i].res = 1
       /\ calls[i + 1].op = "ServerSideApplyDryRun" /\ calls[i + 1].res = 1
       /\ calls[i + 2].op = "GetResource" /\ calls[i + 2].res = 2
       /\ calls[i + 3].op = "ServerSideApplyDryRun" /\ calls[i + 3].res = 2

\* C12: every patch that ServerSideApplyDryRun sends has DryRun = All and
\* Force = true, and the cluster has stored nothing at any point of a run.
C12_ApplyIsForcedDryRun ==
  /\ [](persisted = <<>>)
  /\ [][ (pc = "apply" /\ dryRunRes' # None) =>
           /\ dryRunRes'.options.DryRun = <<"All">>
           /\ dryRunRes'.options.Force = TRUE
           /\ persisted' = persisted ]_vars

\* a second resource has just been applied successfully and the cluster has
\* still stored nothing
C12_Witness ==
  /\ pc = "diff"
  /\ dryRunRes # None /\ dryRunRes.err = "" /\ dryRunRes.obj # None
  /\ Len(printed) >= 1
  /\ persisted = <<>>

\* an object without the entry managedFields of its metadata
WithoutManagedFields(obj) ==
  SMap([f \in DOMAIN obj.m |->
          IF f = "metadata" /\ obj.m[f].t = "smap"
          THEN SMap([k \in DOMAIN obj.m[f].m \ {"managedFields"} |-> obj.m[f].m[k]])
          ELSE obj.m[f]])

\* C13: neither input of a Diff call of cluster mode mentions
\* metadata.managedFields, and when the live and the predicted object differ
\* in managedFields only and both are serialised, the diff is the sentinel.
C13_ManagedFieldsStripped ==
  [][ pc = "diff" =>
        /\ ~HasManagedFields(lastDiff'.fileA)
        /\ ~HasManagedFields(lastDiff'.fileB)
        /\ ( /\ liveRes.obj # None
             /\ lastDiff'.marshalErrs = <<"", "">>
             /\ liveRes.obj # dryRunRes.obj
             /\ WithoutManagedFields(liveRes.obj) = WithoutManagedFields(dryRunRes.obj) )
           => lastDiff'.text = sNoChanges ]_vars

\* the live and the predicted object differed in managedFields only, and
\* the diff of the two was the sentinel
C13_Witness ==
  /\ lastDiff # None
  /\ lastDiff.liveErr = ""
  /\ lastDiff.marshalErrs = <<"", "">>
  /\ lastDiff.fileA # <<>>
  /\ lastDiff.fileA = lastDiff.fileB
  /\ lastDiff.text = sNoChanges

\* C14: for a local document without a namespace, the live fetch and the
\* dry-run apply both target the client's configured namespace.
C14_BothCallsTargetClientNamespace ==
  \A i \in 1..Len(calls) :
    ( /\ calls[i].op \in {"GetResource", "ServerSideApplyDryRun"}
      /\ GetNamespace(ResourcesOfFile(calls[i].file)[calls[i].res]) = <<>> )
    => /\ calls[i].namespace = args.namespace
       /\ \A j \in 1..Len(calls) :
            (calls[j].file = calls[i].file /\ calls[j].res = calls[i].res)
            => calls[j].namespace = calls[i].namespace

C16_DecodeErrorsNameTheSide ==
  \A c \in 1..Len(diffCall) :
    LET call == diffCall[c]
    IN  /\ ~Decodable(call.fileA) =>
             (call.err = "failed to decode first file" /\ call.text = <<>>)
        /\ (Decodable(call.fileA) /\ ~Decodable(call.fileB)) =>
             (call.err = "failed to decode second file" /\ call.text = <<>>)
        /\ (Decodable(call.fileA) /\ Decodable(call.fileB)) => call.err = ""

\* neither input decodes, the first has documents before the malformed one,
\* and the error names the first file
C16_Witness ==
  \E c \in 1..Len(diffCall) :
    LET call == diffCall[c]
    IN  /\ ~Decodable(call.fileA) /\ ~Decodable(call.fileB)
        /\ Len(call.fileA) >= 2 /\ call.fileA[1] # BadNode
        /\ call.err = "failed to decode first file"
        /\ call.text = <<>>

\* a stream without its empty documents
WithoutEmptyDocs(file) == SelectSeq(file, LAMBDA n : n = BadNode \/ DecodeNode(n) # NilV)

\* C17: the documents that decodeDocs and ParseResources produce from an
\* input never include an empty document, and the result of Diff is the
\* same as without the empty documents of its inputs.
C17_EmptyDocumentsOmitted ==
  \A c \in 1..Len(diffCall) :
    LET call == diffCall[c]
    IN  (Decodable(call.fileA) /\ Decodable(call.fileB)) =>
          /\ \A i \in 1..Len(decodeDocs(call.fileA).docs) :
               decodeDocs(call.fileA).docs[i] # NilV
          /\ \A i \in 1..Len(ParseResources(call.fileA).objs) :
               ParseResources(call.fileA).objs[i] # NilV
          /\ call.text = Diff(WithoutEmptyDocs(call.fileA), WithoutEmptyDocs(call.fileB),
                              call.opts).text

(***************************************************************************)
(* Further claims about maskSensitiveData (checked under SpecMaskDocs).    *)
(***************************************************************************)
\* the documents maskSensitiveData works on: a map[string]interface{} whose
\* kind has a rule
IsMaskedKind(doc) == doc.t = "smap" /\ SensitiveFields(doc) # {}

\* C18 as stated: an entry of the mapping at a sensitive field whose value
\* is itself a mapping is the same after maskSensitiveData as before.
C18_NestedMappingsUntouched ==
  \A c \in 1..Len(maskDocsCall) :
    LET call == maskDocsCall[c]
    IN  \A i \in 1..Len(call.docs) :
          \A f \in SensitiveFields(call.docs[i]) :
            (f \in DOMAIN call.docs[i].m /\ IsMapping(call.docs[i].m[f])) =>
              \A k \in DOMAIN call.docs[i].m[f].m :
                IsMapping(call.docs[i].m[f].m[k]) =>
                  call.masked[i].m[f].m[k] = call.docs[i].m[f].m[k]

\* C18, amended: in a document that maskSensitiveData works on, every entry
\* of the mapping at a sensitive field is replaced by a string, the mask of
\* the %v text of its value: a scalar by the mask of its text, and a nested
\* mapping by the mask of the text of the whole mapping, which has the
\* length of that text.
C18_EveryEntryReplacedByMask ==
  \A c \in 1..Len(maskDocsCall) :
    LET call == maskDocsCall[c]
    IN  \A i \in 1..Len(call.docs) :
          IsMaskedKind(call.docs[i]) =>
            \A f \in SensitiveFields(call.docs[i]) :
              (f \in DOMAIN call.docs[i].m /\ IsMapping(call.docs[i].m[f])) =>
                \A k \in DOMAIN call.docs[i].m[f].m :
                  LET before == call.docs[i].m[f].m[k]
                      after  == call.masked[i].m[f].m[k]
                  IN  /\ after.t = "str"
                      /\ after.s = generateMask(Sprintf(before))
                      /\ Len(after.s) = Len(Sprintf(before))
                      /\ IsMapping(before) => after # before

\* a Secret whose data holds a nested mapping has been masked: the entry is
\* now a string of the length of the mapping's text
C18_Witness ==
  \E c \in 1..Len(maskDocsCall) :
    LET call == maskDocsCall[c]
    IN  \E i \in 1..Len(call.docs) :
          /\ IsMaskedKind(call.docs[i])
          /\ "data" \in DOMAIN call.docs[i].m
          /\ IsMapping(call.docs[i].m["data"])
          /\ "nested" \in DOMAIN call.docs[i].m["data"].m
          /\ IsMapping(call.docs[i].m["data"].m["nested"])
          /\ call.masked[i].m["data"].m["nested"].t = "str"
          /\ Len(call.masked[i].m["data"].m["nested"].s) = 8

(***************************************************************************)
(* Further claims about filterResources (checked under SpecFilter).        *)
(***************************************************************************)
\* out consists of elements of in at strictly increasing positions
IsSubsequence(out, in) ==
  \E f \in [1..Len(out) -> 1..Len(in)] :
    /\ \A i \in 1..Len(out) : out[i] = in[f[i]]
    /\ \A i \in 1..Len(out) : \A j \in 1..Len(out) : i < j => f[i] < f[j]

\* C19: the output of filterResources consists of documents of the input,
\* unaltered, at strictly increasing positions of the input, and when both
\* lists are empty it is the input.
C19_OutputIsOrderedSubsequence ==
  \A c \in 1..Len(filterCall) :
    LET call == filterCall[c]
    IN  /\ IsSubsequence(call.filtered, call.docs)
        /\ (call.includeKinds = <<>> /\ call.excludeKinds = <<>>) =>
             call.filtered = call.docs

\* two different documents have both passed an active filter, in the order
\* of the input
C19_Witness ==
  \E c \in 1..Len(filterCall) :
    LET call == filterCall[c]
    IN  /\ call.excludeKinds # <<>>
        /\ Len(call.docs) = 2
        /\ call.docs[1] # call.docs[2]
        /\ call.filtered = call.docs

\* the upper-case form of a string, and of the kind of a document
ToUpper(s) ==
  [i \in 1..Len(s) |->
     IF \E j \in 1..Len(Lower) : Lower[j] = s[i]
     THEN Upper[CHOOSE j \in 1..Len(Lower) : Lower[j] = s[i]]
     ELSE s[i]]

UpperKind(doc) ==
  IF KindDeterminable(doc)
  THEN [doc EXCEPT !.m = [doc.m EXCEPT !["kind"] = StrV(ToUpper(doc.m["kind"].s))]]
  ELSE doc

UpperKinds(docs) == [i \in 1..Len(docs) |-> UpperKind(docs[i])]

UpperList(kinds) == [i \in 1..Len(kinds) |-> ToUpper(kinds[i])]

\* C20: the decision of filterResources on each document is the same when
\* the kinds of the documents, the entries of the two lists, or both are
\* put in upper case.
C20_KindMatchIgnoresCase ==
  \A c \in 1..Len(filterCall) :
    LET call == filterCall[c]
    IN  /\ filterResources(UpperKinds(call.docs), call.includeKinds, call.excludeKinds)
             = UpperKinds(call.filtered)
        /\ filterResources(call.docs, UpperList(call.includeKinds),
                           UpperList(call.excludeKinds))
             = call.filtered
        /\ filterResources(UpperKinds(call.docs), UpperList(call.includeKinds),
                           UpperList(call.excludeKinds))
             = UpperKinds(call.filtered)

\* a document of kind SERVICE has passed the include list <<Service>>, and
\* one of kind Secret has not
C20_Witness ==
  \E c \in 1..Len(filterCall) :
    LET call == filterCall[c]
    IN  /\ call.includeKinds = <<sService>>
        /\ call.excludeKinds = <<>>
        /\ Len(call.docs) = 2
        /\ KindDeterminable(call.docs[1]) /\ call.docs[1].m["kind"].s = sServiceUc
        /\ KindDeterminable(call.docs[2]) /\ call.docs[2].m["kind"].s = sSecret
        /\ call.filtered = <<call.docs[1]>>

(***************************************************************************)
(* Claims about ListYAMLFiles (checked under SpecList).                    *)
(***************************************************************************)
\* the name ends with the suffix, letter case aside
EndsWithFold(name, suffix) ==
  /\ Len(name) >= Len(suffix)
  /\ ToUpper(SubSeq(name, Len(name) - Len(suffix) + 1, Len(name))) = ToUpper(suffix)

\* the names of the direct non-directory entries with a YAML extension
YAMLNamesOf(dir) ==
  { e.name : e \in { e \in dir.entries :
      ~e.isDir /\ (EndsWithFold(e.name, sDotYaml) \/ EndsWithFold(e.name, sDotYml)) } }

\* C21: ListYAMLFiles returns exactly the names of the directory's direct
\* non-directory entries whose extension is .yaml or .yml, letter case aside,
\* in ascending order of the names (Go's string order) and without entering
\* subdirectories; an empty list and no error when there is no such entry;
\* an error and no list when the directory cannot be read.
C21_ListsYAMLFilesSorted ==
  \A c \in DOMAIN listCall :
    LET call == listCall[c]
    IN  IF ~call.dir.readable
        THEN call.err # "" /\ call.files = <<>>
        ELSE /\ call.err = ""
             /\ {call.files[i] : i \in DOMAIN call.files} = YAMLNamesOf(call.dir)
             /\ \A i, j \in DOMAIN call.files :
                  i < j => StringLess(call.files[i], call.files[j])

\* a directory with two YAML files and a subdirectory named like one
C21_Witness ==
  \E c \in DOMAIN listCall :
    LET call == listCall[c]
    IN  /\ call.dir.readable
        /\ \E e \in call.dir.entries : e.isDir /\ EndsWithFold(e.name, sDotYaml)
        /\ Len(call.files) = 2
        /\ call.files[1] = <<"C",".","Y","A","M","L">>
        /\ call.files[2] = <<"a",".","y","a","m","l">>

(***************************************************************************)
(* Claims about the stages of Diff (checked under SpecDiff).               *)
(***************************************************************************)
\* the documents of one side after the decode, filter and mask stages
FinalTrees(file, opts) ==
  LET decoded  == decodeDocs(file).docs
      filtered == IF opts.IncludeKinds # <<>> \/ opts.ExcludeKinds # <<>>
                  THEN filterResources(decoded, opts.IncludeKinds, opts.ExcludeKinds)
                  ELSE decoded
  IN  IF opts.SecureMode
      THEN maskSensitiveData(filtered, DefaultMaskingRules)
      ELSE filtered

\* the unified diff of the serializations of the final trees of both sides
DiffOfFinalTrees(call) ==
  GetUnifiedDiffString(marshalDocs(FinalTrees(call.fileA, call.opts)),
                       marshalDocs(FinalTrees(call.fileB, call.opts)))

\* C22: in every Diff call that decodes both inputs, the text that is diffed
\* is the serialization of the trees as they are after decoding, filtering
\* and, in secure mode, masking both sides with the default rule table:
\* nothing is serialized before both sides are filtered and masked, and no
\* tree changes after it is serialized.
C22_DiffOfFinalTrees ==
  \A c \in 1..Len(diffCall) :
    LET call == diffCall[c]
        raw  == DiffOfFinalTrees(call)
    IN  (Decodable(call.fileA) /\ Decodable(call.fileB)) =>
          /\ call.err = ""
          /\ call.text = IF raw = <<>> THEN sNoChanges ELSE colorizeDiff(raw)

\* a secure call with a kind filter: a Service is deselected and two Secrets
\* that differ in the password are masked, and the diff is not empty
C22_Witness ==
  \E c \in 1..Len(diffCall) :
    LET call == diffCall[c]
    IN  /\ call.opts.SecureMode
        /\ call.opts.IncludeKinds = <<sSecret>>
        /\ call.fileA = <<SecretNode(sValue8, {})>>
        /\ Len(call.fileB) = 2
        /\ call.fileB[1] = SecretNode(sValue8b, {})
        /\ call.fileB[2] = MapNode(Fields({ <<"kind", Plain(sServiceUc)>> } \cup MetadataNode))
        /\ call.err = ""
        /\ call.text # sNoChanges
        /\ call.text = colorizeDiff(DiffOfFinalTrees(call))
        /\ FinalTrees(call.fileB, call.opts) # decodeDocs(call.fileB).docs

(***************************************************************************)
(* Claims about colorizeDiff (checked under SpecDiff).                     *)
(***************************************************************************)
\* the role of line j of a unified diff of one hunk: the two file headers,
\* the hunk marker, and then content lines told apart by their first byte
RoleOf(raw, j) ==
  IF j <= 2 THEN "fileHeader"
  ELSE IF j = 3 THEN "hunkHeader"
  ELSE IF raw[j][1] = "-" THEN "deletion"
  ELSE IF raw[j][1] = "+" THEN "addition"
  ELSE "context"

\* the line in the colour of the role
InColourOf(role, line) ==
  IF role = "context" THEN line
  ELSE <<ColorCode[role]>> \o line \o <<ColorReset>>

\* C23: in every non-empty diff each line is coloured by its role in the
\* unified diff: only the two file-header lines as file headers, only the
\* hunk marker as a hunk header, every removed line as a deletion and every
\* added line as an addition, whatever the content of the line is.
C23_LinesColouredByRole ==
  \A c \in 1..Len(diffCall) :
    LET call == diffCall[c]
        raw  == DiffOfFinalTrees(call)
    IN  (call.err = "" /\ call.text # sNoChanges) =>
          /\ Len(call.text) = Len(raw)
          /\ \A j \in 1..Len(raw) : call.text[j] = InColourOf(RoleOf(raw, j), raw[j])

(***************************************************************************)
(* Claims about what maskSensitiveData leaves alone (checked under         *)
(* SpecMaskDocs).                                                          *)
(***************************************************************************)
\* C24: maskSensitiveData keeps the number and the order of the documents;
\* a document whose kind has no rule is the same afterwards; a Secret or
\* ConfigMap keeps its top-level keys, the value of every top-level field
\* that is no root key of its rule, and the key set of every mapping at a
\* root key.
C24_OnlySensitiveFieldsChange ==
  \A c \in 1..Len(maskDocsCall) :
    LET call == maskDocsCall[c]
    IN  /\ Len(call.masked) = Len(call.docs)
        /\ \A i \in 1..Len(call.docs) :
             LET before == call.docs[i]
                 after  == call.masked[i]
             IN  IF SensitiveFields(before) = {}
                 THEN after = before
                 ELSE /\ after.t = before.t
                      /\ DOMAIN after.m = DOMAIN before.m
                      /\ \A k \in DOMAIN before.m :
                           /\ k \notin SensitiveFields(before) => after.m[k] = before.m[k]
                           /\ (k \in SensitiveFields(before) /\ IsMapping(before.m[k])) =>
                                /\ after.m[k].t = before.m[k].t
                                /\ DOMAIN after.m[k].m = DOMAIN before.m[k].m

\* a Service with a data mapping comes first and is not modified; a Secret
\* follows whose stringData is masked and whose binaryData and metadata are
\* as before
C24_Witness ==
  \E c \in 1..Len(maskDocsCall) :
    LET call == maskDocsCall[c]
    IN  /\ Len(call.docs) = 2
        /\ KindDeterminable(call.docs[1]) /\ call.docs[1].m["kind"].s = sServiceUc
        /\ "data" \in DOMAIN call.docs[1].m /\ IsMapping(call.docs[1].m["data"])
        /\ call.masked[1] = call.docs[1]
        /\ IsMaskedKind(call.docs[2]) /\ call.docs[2].m["kind"].s = sSecret
        /\ "stringData" \in DOMAIN call.docs[2].m
        /\ "binaryData" \in DOMAIN call.docs[2].m
        /\ call.masked[2].m["stringData"] # call.docs[2].m["stringData"]
        /\ call.masked[2].m["binaryData"] = call.docs[2].m["binaryData"]
        /\ call.masked[2].m["metadata"] = call.docs[2].m["metadata"]

====
